---- MODULE Spec2Model ----
(***************************************************************************)
(* op-deployer: the Configure -> Deploy -> Genesis pipeline over one       *)
(* persisted state document, the CREATE2 bootstrap check, and the docker   *)
(* and local execution backends, as implemented in op-chain-ops/deployer.  *)
(***************************************************************************)
EXTENDS Naturals, Integers, FiniteSets, Sequences, TLC

VARIABLES
    files,      \* path -> content of the state document on disk
    chain,      \* anchor chain: code at the two CREATE2 addresses, bootstrap tx
    cmd,        \* the command being run: idle, configure, deploy, genesis
    pc,         \* position of the stage function (Configure / Deploy / Genesis)
    inf,        \* config.Infile
    outf,       \* config.Outfile
    st,         \* the in-memory *DeploymentState (a set: empty before the read)
    ctxDone,    \* the context of the stage has been cancelled
    sigs,       \* an os.Interrupt is buffered in the sigs channel
    errCh,      \* DeployCLI's errCh: the error Deploy returned (a set)
    ret,        \* what the CLI action returned / how the process ended
    local,      \* config.Local: the backend selector of Deploy
    submitted,  \* eth_sendRawTransaction calls made by this checkCreate2
    polls,      \* receipt polls made by this checkCreate2
    ctr,        \* the container of this backend invocation
    proc,       \* the subprocess of this backend invocation
    cmdErrCh,   \* awaitCommand's cmdErrCh (a set holding cmd.Wait's result)
    art,        \* the artifact the backend returned (a set)
    hist,       \* ghost record: what this run has done so far
    keygen,     \* the KeyGenerator built from config.Mnemonic
    gens,       \* the MnemonicKeyGenerator objects constructed so far
    klog,       \* the Address / PrivateKey calls made on them, in order
    mem,        \* the DeploymentState handed to WriteDeploymentState (a set)
    disk,       \* the document WriteDeploymentState encoded (a set)
    back,       \* what ReadDeploymentState returned for it (a set)
    binv,       \* a backend invocation on its own: backend, operation, opts.State
    fs,         \* the host files that invocation creates or finds
    tool,       \* the toolchain it starts: environment, mounts, what it reads
    loop,       \* checkCreate2's poll loop on its own: ticker, context, result
    rdr,        \* readFileFromContainer on its own: the archive and the scan
    inbox       \* batchInboxAddress on its own: two chain ids, their addresses

\* the variables of a pipeline run
pipeVars == << files, chain, cmd, pc, inf, outf, st, ctxDone, sigs, errCh, ret,
               local, submitted, polls, ctr, proc, cmdErrCh, art, hist >>

\* the inputs and objects of the components exercised on their own
keygenVars == << gens, klog >>
roundTripVars == << mem, disk, back >>
backendVars == << binv, fs, tool >>
pollVars == << loop >>
tarVars == << rdr >>
inboxVars == << inbox >>
unitVars == << keygen, keygenVars, roundTripVars, backendVars, pollVars, tarVars,
              inboxVars >>

vars == << pipeVars, unitVars >>

----------------------------------------------------------------------------
(* Bounds of the model *)

\* receipt polls one checkCreate2 invocation makes before the model stops it
MaxPolls == 2
\* distinct Addresses records the toolchain can produce
NumAddressSets == 2
\* distinct anchor-chain head blocks
NumBlocks == 2

\* the state document of the deployment, and a second path an operator may
\* name as the output of a stage
StatePath == "a"
OtherPath == "b"
Paths == { StatePath, OtherPath }
Blocks == 1..NumBlocks
AddressSets == 1..NumAddressSets

----------------------------------------------------------------------------
(* Data model: state.go, part_006 *)

\* the low byte of the address checkCreate2 reads (0x...956d)
Create2Address == 109
\* the low byte of the address the bootstrap transaction deploys to and
\* deploy.sh checks (0x...956C)
CanonicalCreate2Address == 108

\* uint64 values: a model integer up to Two53 stands for itself, and
\* Two53 + k stands for 2^53 + k (float64 holds every integer up to 2^53)
Two53 == 1000000

\* JSON values, all of one shape: numbers, booleans (n is 0 or 1), and
\* strings (hex-encoded addresses and hashes, n is the encoded value)
Num(n) == [t |-> "num", n |-> n]
Bool(b) == [t |-> "bool", n |-> IF b THEN 1 ELSE 0]
Str(n) == [t |-> "str", n |-> n]

\* ChainIntent.Overrides: nil, or a map kept as a set of [id, val] entries
NoOverrides == {}
Overrides(m) == { m }

\* ChainIntent
Intent(l1, l2, fp, da, fund, ov) ==
    [l1ChainID |-> l1, l2ChainID |-> l2, useFaultProofs |-> fp, useAltDA |-> da,
     fundDevAccounts |-> fund, overrides |-> ov]

\* the intent of the pipeline runs: the one of the end-to-end scenario
Intents == { Intent(1, 42, FALSE, FALSE, FALSE, NoOverrides) }

\* the same intent with an override of the configuration's l2ChainID
OverrideIntents ==
    { Intent(1, 42, FALSE, FALSE, FALSE,
             Overrides({ [id |-> "l2ChainID", val |-> Num(43)] })) }

\* DeploymentState: optional fields are sets with at most one element, the
\* per-chain maps are sets of [id, val] entries with distinct ids
DeploymentState(i, dc, ad, gf, rc) ==
    [intent |-> i, deployConfig |-> dc, addresses |-> ad,
     genesisFiles |-> gf, rollupConfigs |-> rc]

IntentOnly(i) == DeploymentState({i}, {}, {}, {}, {})

\* m[k] = v on a map kept as a set of entries
MapPut(m, k, v) == { e \in m : e.id # k } \cup { [id |-> k, val |-> v] }

\* contents of a path
Absent == [kind |-> "absent", doc |-> {}]
Truncated == [kind |-> "empty", doc |-> {}]
Partial == [kind |-> "partial", doc |-> {}]
Document(d) == [kind |-> "doc", doc |-> {d}]

----------------------------------------------------------------------------
(* state.go *)

\* the float64 nearest to an unsigned integer below 2^54, ties to even
Float64(n) ==
    IF n <= Two53 THEN n
    ELSE LET k == n - Two53 IN
         IF k % 2 = 0 THEN n
         ELSE IF (k \div 2) % 2 = 0 THEN n - 1 ELSE n + 1

\* json.Unmarshal into map[string]interface{}: every number becomes a float64
UnmarshalGeneric(doc) ==
    { [id |-> e.id,
       val |-> IF e.val.t = "num" THEN Num(Float64(e.val.n)) ELSE e.val] : e \in doc }

\* the intent of a document: the overrides decode into
\* map[string]interface{}
DecodeIntent(j) == [j EXCEPT !.overrides = { UnmarshalGeneric(m) : m \in j.overrides }]

\* ReadDeploymentState: os.Open fails on a missing file, Decode fails on an
\* empty or cut-off document; the overrides of the intent decode into
\* map[string]interface{}
ReadDeploymentState(path) ==
    IF files[path].kind = "doc"
    THEN { [d EXCEPT !.intent = { DecodeIntent(j) : j \in d.intent }] :
             d \in files[path].doc }
    ELSE {}

\* WriteDeploymentState, first half: os.OpenFile(O_CREATE|O_TRUNC|O_WRONLY)
OpenTrunc(path) == [files EXCEPT ![path] = Truncated]

\* WriteDeploymentState, second half: encoder.Encode(state) into the open file
Encode(path, d) == [files EXCEPT ![path] = Document(d)]

----------------------------------------------------------------------------
(* cli.go: the files and the environment a backend hands to the toolchain *)

\* the temp files of os.CreateTemp (cli.go:160, 209, 219, 436, 479, 489) and
\* the deploy config of the monorepo checkout (cli.go:513)
StateTemp == "infile-*.json"
AddressesTemp == "addresses-*.json"
ConfigTemp == "deploy-config-*.json"
RepoConfigPath == "contracts-bedrock/deploy-config/deploy-config.json"
HostFiles == { StateTemp, AddressesTemp, ConfigTemp, RepoConfigPath }

\* the paths inside the container (cli.go:175, 182, 229-230, 246, 251)
ContainerStatePath == "/infile.json"
ContainerAddressesPath == "/addresses.json"
ContainerConfigPath ==
    "/workspace/optimism/packages/contracts-bedrock/deploy-config/deploy-config.json"

\* what a file holds: nothing yet, an encoded DeploymentState, encoded
\* addresses, an encoded deploy config, or what the image ships
FileOf(kind, state, addr, cfg) ==
    [kind |-> kind, state |-> state, addr |-> addr, cfg |-> cfg]
NoFile == FileOf("absent", {}, {}, {})
EmptyFile == FileOf("empty", {}, {}, {})
ImageFile == FileOf("image", {}, {}, {})
StateFile(d) == FileOf("state", { d }, {}, {})
AddressesFile(a) == FileOf("addresses", {}, a, {})
ConfigFile(c) == FileOf("config", {}, {}, c)

NoInvocation == [backend |-> "none", op |-> "none", state |-> {}, pc |-> "idle"]
NoToolchain == [started |-> FALSE, env |-> {}, mounts |-> {}, saw |-> {}]

\* checkCreate2's loop on its own (deploy.go:192-211): where it is, whether
\* tick.C holds a tick, the submitted transaction on the anchor chain,
\* whether ctx is cancelled, the polls that found no receipt, what the last
\* receipt query answered, and what checkCreate2 returned
NoLoop == [pc |-> "idle", tickC |-> FALSE, tx |-> "none", done |-> FALSE,
           polls |-> 0, last |-> "none", result |-> "none"]

----------------------------------------------------------------------------
(* keygen.go: the key derivation service *)

\* the seed phrases an operator may use
NumSeeds == 2
Seeds == 1..NumSeeds
TestMnemonic == 1

\* the roles NewDeployConfig asks keys for
Roles ==
    { "L2ProxyAdminOwnerRole", "L1ProxyAdminOwnerRole",
      "BaseFeeVaultRecipientRole", "L1FeeVaultRecipientRole",
      "SequencerFeeVaultRecipientRole", "SequencerP2PRole", "BatcherRole",
      "SuperchainConfigGuardianKey", "ChallengerRole", "ProposerRole" }

RoleIndex(role) ==
    CASE role = "L2ProxyAdminOwnerRole" -> 1
      [] role = "L1ProxyAdminOwnerRole" -> 2
      [] role = "BaseFeeVaultRecipientRole" -> 3
      [] role = "L1FeeVaultRecipientRole" -> 4
      [] role = "SequencerFeeVaultRecipientRole" -> 5
      [] role = "SequencerP2PRole" -> 6
      [] role = "BatcherRole" -> 7
      [] role = "SuperchainConfigGuardianKey" -> 8
      [] role = "ChallengerRole" -> 9
      [] role = "ProposerRole" -> 10

\* role.Key(chainID): the key of a role on a chain
RoleKey(role, chainID) == [role |-> role, chainID |-> chainID]

\* devkeys.MnemonicDevKeys: the address at the derivation path of a key, a
\* non-zero value that differs for every (seed, chain id, role)
DevAddress(seed, key) ==
    ((seed * (2 * Two53 + 8)) + key.chainID) * 16 + RoleIndex(key.role)

\* the secret at the derivation path of a key (the address is its public half)
DevSecret(seed, key) == 0 - DevAddress(seed, key)

\* the generator objects a program constructs
GenIds == { "g1", "g2" }

\* NewMnemonicKeyGenerator: the generator holds the dev keys of the seed;
\* bad is the set of roles its lookups fail for (none, for a valid seed)
MnemonicKeyGenerator(mnemonic) == [seed |-> mnemonic, bad |-> {}]

\* a KeyGenerator whose lookups fail for some roles
FailingKeyGenerator(mnemonic, bad) == [seed |-> mnemonic, bad |-> bad]

\* (for comparison: a generator whose answer moves with the calls made before)
Address_Stateful(m, key) ==
    IF key.role \in m.bad
    THEN [addr |-> 0, err |-> TRUE]
    ELSE [addr |-> DevAddress(m.seed, key) + Len(klog), err |-> FALSE]
\* MnemonicKeyGenerator.Address: m.dk.Address(key)
Address(m, key) ==
    IF key.role \in m.bad
    THEN [addr |-> 0, err |-> TRUE]
    ELSE [addr |-> DevAddress(m.seed, key), err |-> FALSE]

\* MnemonicKeyGenerator.PrivateKey: m.dk.Secret(key)
PrivateKey(m, key) ==
    IF key.role \in m.bad
    THEN [secret |-> 0, err |-> TRUE]
    ELSE [secret |-> DevSecret(m.seed, key), err |-> FALSE]

----------------------------------------------------------------------------
(* part_006: the configuration deriver *)

\* genesis.DeployConfig.Check: the chain ids must be set
DeployConfigCheck(cfg) == cfg.L1ChainID # 0 /\ cfg.L2ChainID # 0

\* ChainIntent.Check
IntentCheck(c) ==
    IF c.l1ChainID = 0 THEN "L1ChainID must be set"
    ELSE IF c.l2ChainID = 0 THEN "L2ChainID must be set"
    ELSE IF c.useFaultProofs /\ c.useAltDA
         THEN "cannot use both fault proofs and alt-DA"
    ELSE "nil"

\* the addrFor calls of NewDeployConfig in the order Go evaluates them
\* (part_006:90-146): the field that takes the address, and the role
AddrForCalls ==
    << [field |-> "ProxyAdminOwner", role |-> "L2ProxyAdminOwnerRole"],
       [field |-> "FinalSystemOwner", role |-> "L1ProxyAdminOwnerRole"],
       [field |-> "BaseFeeVaultRecipient", role |-> "BaseFeeVaultRecipientRole"],
       [field |-> "L1FeeVaultRecipient", role |-> "L1FeeVaultRecipientRole"],
       [field |-> "SequencerFeeVaultRecipient", role |-> "SequencerFeeVaultRecipientRole"],
       [field |-> "GovernanceTokenOwner", role |-> "L2ProxyAdminOwnerRole"],
       [field |-> "P2PSequencerAddress", role |-> "SequencerP2PRole"],
       [field |-> "BatchSenderAddress", role |-> "BatcherRole"],
       [field |-> "SuperchainConfigGuardian", role |-> "SuperchainConfigGuardianKey"],
       [field |-> "L2OutputOracleChallenger", role |-> "ChallengerRole"],
       [field |-> "L2OutputOracleProposer", role |-> "ProposerRole"] >>

AddressFields == { AddrForCalls[i].field : i \in DOMAIN AddrForCalls }

\* the chain id addrFor namespaces the role keys by (part_006:64)
AddrForChainID(intent) == intent.l1ChainID

\* the first addrFor call whose lookup fails (0: none): it sets guardErr
GuardErrAt(kg, intent) ==
    LET failing == { i \in DOMAIN AddrForCalls :
                       Address(kg, RoleKey(AddrForCalls[i].role,
                                           AddrForChainID(intent))).err }
    IN IF failing = {} THEN 0
       ELSE CHOOSE i \in failing : \A j \in failing : i <= j

\* the addrFor calls that reach the key generator: once guardErr is set
\* addrFor returns the zero address without asking (part_006:60-62)
KeygenCalls(kg, intent) ==
    LET g == GuardErrAt(kg, intent)
        n == IF g = 0 THEN Len(AddrForCalls) ELSE g
    IN [i \in 1..n |-> RoleKey(AddrForCalls[i].role, AddrForChainID(intent))]

\* addrFor for the i-th call
addrFor(kg, intent, i) ==
    LET g == GuardErrAt(kg, intent) IN
    IF g # 0 /\ i >= g THEN 0
    ELSE Address(kg, RoleKey(AddrForCalls[i].role, AddrForChainID(intent))).addr

\* batchInboxAddress: 0x42 in the first byte, the chain id in the last ones
batchInboxAddress(chainID) == 66 * 16777216 + chainID

\* genesis.FaultProofDeployConfig and genesis.AltDADeployConfig at their zero
\* values: each block holds its flag with its parameters
NoFaultProofs == [UseFaultProofs |-> FALSE, FaultGameMaxDepth |-> 0]
NoAltDA == [UseAltDA |-> FALSE, DAChallengeWindow |-> 0]

\* the block assigned to cfg.FaultProofDeployConfig after cfg.UseFaultProofs
\* = true (part_006:156-170): the literal names the flag
FaultProofDeployConfig ==
    [NoFaultProofs EXCEPT !.UseFaultProofs = TRUE, !.FaultGameMaxDepth = 44]

\* the block assigned to cfg.AltDADeployConfig after cfg.UseAltDA = true
\* (part_006:173-180): the literal names the windows, the bond and the
\* refund percentage, not the flag, which takes the zero value with the
\* assignment of the block
AltDADeployConfig ==
    [NoAltDA EXCEPT !.DAChallengeWindow = 140]
\* the genesis.DeployConfig NewDeployConfig builds (part_006:82-181) from
\* the intent, the hash of the fetched head block and the role addresses
BaseDeployConfig(kg, head, intent) ==
    LET fp == IF intent.useFaultProofs THEN FaultProofDeployConfig ELSE NoFaultProofs
        da == IF intent.useAltDA THEN AltDADeployConfig ELSE NoAltDA
    IN
    [L1ChainID |-> intent.l1ChainID,
     L2ChainID |-> intent.l2ChainID,
     L1StartingBlockHash |-> head,
     L2BlockTime |-> 2,
     BatchInboxAddress |-> batchInboxAddress(intent.l2ChainID),
     ProxyAdminOwner |-> addrFor(kg, intent, 1),
     FinalSystemOwner |-> addrFor(kg, intent, 2),
     BaseFeeVaultRecipient |-> addrFor(kg, intent, 3),
     L1FeeVaultRecipient |-> addrFor(kg, intent, 4),
     SequencerFeeVaultRecipient |-> addrFor(kg, intent, 5),
     GovernanceTokenOwner |-> addrFor(kg, intent, 6),
     P2PSequencerAddress |-> addrFor(kg, intent, 7),
     BatchSenderAddress |-> addrFor(kg, intent, 8),
     SuperchainConfigGuardian |-> addrFor(kg, intent, 9),
     L2OutputOracleChallenger |-> addrFor(kg, intent, 10),
     L2OutputOracleProposer |-> addrFor(kg, intent, 11),
     FundDevAccounts |-> intent.fundDevAccounts,
     UseFaultProofs |-> fp.UseFaultProofs,
     FaultGameMaxDepth |-> fp.FaultGameMaxDepth,
     UseAltDA |-> da.UseAltDA,
     DAChallengeWindow |-> da.DAChallengeWindow]

\* the fields of the configuration in the model: the key of each in the
\* JSON document and the JSON type it encodes to
FieldSpecs ==
    { [name |-> "L1ChainID", tag |-> "l1ChainID", type |-> "num"],
      [name |-> "L2ChainID", tag |-> "l2ChainID", type |-> "num"],
      [name |-> "L1StartingBlockHash", tag |-> "l1StartingBlockTag", type |-> "str"],
      [name |-> "L2BlockTime", tag |-> "l2BlockTime", type |-> "num"],
      [name |-> "BatchInboxAddress", tag |-> "batchInboxAddress", type |-> "str"],
      [name |-> "ProxyAdminOwner", tag |-> "proxyAdminOwner", type |-> "str"],
      [name |-> "FinalSystemOwner", tag |-> "finalSystemOwner", type |-> "str"],
      [name |-> "BaseFeeVaultRecipient", tag |-> "baseFeeVaultRecipient", type |-> "str"],
      [name |-> "L1FeeVaultRecipient", tag |-> "l1FeeVaultRecipient", type |-> "str"],
      [name |-> "SequencerFeeVaultRecipient", tag |-> "sequencerFeeVaultRecipient", type |-> "str"],
      [name |-> "GovernanceTokenOwner", tag |-> "governanceTokenOwner", type |-> "str"],
      [name |-> "P2PSequencerAddress", tag |-> "p2pSequencerAddress", type |-> "str"],
      [name |-> "BatchSenderAddress", tag |-> "batchSenderAddress", type |-> "str"],
      [name |-> "SuperchainConfigGuardian", tag |-> "superchainConfigGuardian", type |-> "str"],
      [name |-> "L2OutputOracleChallenger", tag |-> "l2OutputOracleChallenger", type |-> "str"],
      [name |-> "L2OutputOracleProposer", tag |-> "l2OutputOracleProposer", type |-> "str"],
      [name |-> "FundDevAccounts", tag |-> "fundDevAccounts", type |-> "bool"],
      [name |-> "UseFaultProofs", tag |-> "useFaultProofs", type |-> "bool"],
      [name |-> "FaultGameMaxDepth", tag |-> "faultGameMaxDepth", type |-> "num"],
      [name |-> "UseAltDA", tag |-> "useAltDA", type |-> "bool"],
      [name |-> "DAChallengeWindow", tag |-> "daChallengeWindow", type |-> "num"] }

FieldTags == { f.tag : f \in FieldSpecs }

\* the JSON value a field of the configuration encodes to
ToJSON(f, v) ==
    CASE f.type = "num" -> Num(v)
      [] f.type = "bool" -> Bool(v)
      [] f.type = "str" -> Str(v)

\* json.Marshal(deployConfig): one entry per field
MarshalConfig(cfg) ==
    { [id |-> f.tag, val |-> ToJSON(f, cfg[f.name])] : f \in FieldSpecs }

\* for key, value := range overrides { tmpDeployConfig[key] = value }
MergeOverrides(tmp, overrides) ==
    { e \in tmp : \A o \in overrides : o.id # e.id } \cup overrides

\* json.Unmarshal(jsonString, result) into a zero genesis.DeployConfig: a
\* value of the wrong JSON type fails the decoding
DecodeFails(doc) ==
    \E e \in doc, f \in FieldSpecs : e.id = f.tag /\ e.val.t # f.type

\* the value the decoding gives a field: the entry of its key, else the
\* zero value; a key that names no field is skipped
FieldOf(doc, tag) ==
    IF \E e \in doc : e.id = tag
    THEN (CHOOSE e \in doc : e.id = tag).val.n
    ELSE 0

UnmarshalConfig(doc) ==
    [L1ChainID |-> FieldOf(doc, "l1ChainID"),
     L2ChainID |-> FieldOf(doc, "l2ChainID"),
     L1StartingBlockHash |-> FieldOf(doc, "l1StartingBlockTag"),
     L2BlockTime |-> FieldOf(doc, "l2BlockTime"),
     BatchInboxAddress |-> FieldOf(doc, "batchInboxAddress"),
     ProxyAdminOwner |-> FieldOf(doc, "proxyAdminOwner"),
     FinalSystemOwner |-> FieldOf(doc, "finalSystemOwner"),
     BaseFeeVaultRecipient |-> FieldOf(doc, "baseFeeVaultRecipient"),
     L1FeeVaultRecipient |-> FieldOf(doc, "l1FeeVaultRecipient"),
     SequencerFeeVaultRecipient |-> FieldOf(doc, "sequencerFeeVaultRecipient"),
     GovernanceTokenOwner |-> FieldOf(doc, "governanceTokenOwner"),
     P2PSequencerAddress |-> FieldOf(doc, "p2pSequencerAddress"),
     BatchSenderAddress |-> FieldOf(doc, "batchSenderAddress"),
     SuperchainConfigGuardian |-> FieldOf(doc, "superchainConfigGuardian"),
     L2OutputOracleChallenger |-> FieldOf(doc, "l2OutputOracleChallenger"),
     L2OutputOracleProposer |-> FieldOf(doc, "l2OutputOracleProposer"),
     FundDevAccounts |-> FieldOf(doc, "fundDevAccounts") = 1,
     UseFaultProofs |-> FieldOf(doc, "useFaultProofs") = 1,
     FaultGameMaxDepth |-> FieldOf(doc, "faultGameMaxDepth"),
     UseAltDA |-> FieldOf(doc, "useAltDA") = 1,
     DAChallengeWindow |-> FieldOf(doc, "daChallengeWindow")]

\* ApplyDeployConfigOverrides: the configuration through a generic JSON
\* document with the overrides put over it, decoded back; cfg is empty on
\* an error
ApplyDeployConfigOverrides(deployConfig, overrides) ==
    LET tmpDeployConfig == UnmarshalGeneric(MarshalConfig(deployConfig))
        merged == MergeOverrides(tmpDeployConfig, overrides)
    IN IF DecodeFails(merged)
       THEN [cfg |-> {}, err |-> "decode"]
       ELSE [cfg |-> { UnmarshalConfig(merged) }, err |-> "nil"]

\* (for comparison: a deriver that hands back what it built although a key
\* lookup failed, and skips the overrides and the validation)
NewDeployConfig_KeepCfg(kg, head, intent) ==
    LET base == BaseDeployConfig(kg, head, intent)
        calls == KeygenCalls(kg, intent)
    IN [cfg |-> { base },
        err |-> IF GuardErrAt(kg, intent) # 0 THEN "derive" ELSE "nil",
        base |-> { base }, calls |-> calls]

\* NewDeployConfig after the head block is fetched (part_006:78-198):
\* cfg is the configuration returned (empty for nil), err the error, base
\* the configuration before the overrides, calls the lookups made
NewDeployConfig(kg, head, intent) ==
    LET base == BaseDeployConfig(kg, head, intent)
        calls == KeygenCalls(kg, intent)
        ov == IF intent.overrides = NoOverrides
              THEN [cfg |-> { base }, err |-> "nil"]
              ELSE ApplyDeployConfigOverrides(base,
                       CHOOSE m \in intent.overrides : TRUE)
    IN IF GuardErrAt(kg, intent) # 0
       THEN [cfg |-> {}, err |-> "derive", base |-> { base }, calls |-> calls]
       ELSE IF ov.err # "nil"
       THEN [cfg |-> {}, err |-> "overrides", base |-> { base }, calls |-> calls]
       ELSE IF \E c \in ov.cfg : ~DeployConfigCheck(c)
       THEN [cfg |-> {}, err |-> "validation", base |-> { base }, calls |-> calls]
       ELSE [cfg |-> ov.cfg, err |-> "nil", base |-> { base }, calls |-> calls]

----------------------------------------------------------------------------
(* The process *)

\* the calls checkCreate2 makes to the anchor chain (deploy.go:177, 187,
\* 197) and the docker backend to the docker daemon (cli.go:155, 172, 276)
\* the goroutines a backend invocation starts: go d.streamLogs(ctx, id)
\* (cli.go:296), which copies the container's logs to the console, and
\* awaitCommand's go func() { cmd.Wait() } (cli.go:539-542), which waits for
\* the subprocess; the subprocess writes to the console itself, through
\* cmd.Stdout = os.Stdout and cmd.Stderr = os.Stderr (cli.go:444-445)
Tasks == { "streamLogs", "cmd.Wait" }

ClientCalls ==
    { "CodeAt", "eth_sendRawTransaction", "TransactionReceipt",
      "ensureImage", "ContainerCreate", "ContainerStart" }

\* ghost record of one run:
\*   backend        how far the backend got: "none", "created", "invoked"
\*   opened         the output path was opened for writing
\*   bootErr        checkCreate2 returned an error
\*   orig           the content of the output path when the run began
\*   read           the document the stage read
\*   cancelRunning  awaitContainerExit / awaitCommand left its select with the
\*                  context cancelled and the toolchain still running
\*   codeAtStart    the helper had code at the canonical address when
\*                  checkCreate2 read the chain
\*   sig            where the stage was when the interrupt arrived
\*   fetched        Configure has asked the anchor chain for its head block
\*   head           the head block it got
\*   derived        what NewDeployConfig returned
\*   asked          Genesis has asked the anchor chain for the start block
\*   start          the block it got
\*   tasks          how many goroutines of each kind the backend has started
\*   tries          how often each call to the anchor chain or to docker was
\*                  made
\*   failed         the calls among them that returned an error
NoHist == [backend |-> "none", opened |-> FALSE, bootErr |-> FALSE,
           orig |-> Absent, read |-> {}, cancelRunning |-> FALSE,
           codeAtStart |-> FALSE, sig |-> "none",
           fetched |-> FALSE, head |-> {}, derived |-> {},
           asked |-> FALSE, start |-> {},
           tasks |-> [t \in Tasks |-> 0], logs |-> "none",
           tries |-> [c \in ClientCalls |-> 0], failed |-> {}]

\* (for comparison: a go statement that starts its task twice)
Go_Twice(h, t) == [h EXCEPT !.tasks[t] = @ + 2]

\* go t(...): one more goroutine of that kind
Go(h, t) == [h EXCEPT !.tasks[t] = @ + 1]

\* the call c is made once more, and returns an error or not
Called(h, c, err) ==
    [h EXCEPT !.tries[c] = @ + 1,
              !.failed = IF err THEN @ \cup { c } ELSE @]

\* the pipeline before the first run: the state document is one of docs
PipeInitDocs(docs) ==
    /\ \E d \in docs :
          files = [p \in Paths |-> IF p = StatePath THEN Document(d) ELSE Absent]
    /\ \E c108, c109 \in BOOLEAN :
          chain = [code |-> [a \in {CanonicalCreate2Address, Create2Address} |->
                               IF a = CanonicalCreate2Address THEN c108 ELSE c109],
                   tx |-> "none"]
    /\ cmd = "idle"
    /\ pc = "none"
    /\ inf = StatePath
    /\ outf = StatePath
    /\ st = {}
    /\ ctxDone = FALSE
    /\ sigs = FALSE
    /\ errCh = {}
    /\ ret = "none"
    /\ local = FALSE
    /\ submitted = 0
    /\ polls = 0
    /\ ctr = "none"
    /\ proc = "none"
    /\ cmdErrCh = {}
    /\ art = {}
    /\ hist = NoHist

\* ... whose state document holds an intent and nothing else
PipeInit(intents) == PipeInitDocs({ IntentOnly(i) : i \in intents })

\* no generator object constructed
KeygenIdle ==
    /\ gens = [g \in GenIds |-> {}]
    /\ klog = << >>

\* no state value written on its own
RoundTripIdle ==
    /\ mem = {}
    /\ disk = {}
    /\ back = {}

\* no backend invoked on its own
BackendIdle ==
    /\ binv = NoInvocation
    /\ fs = [f \in HostFiles |-> NoFile]
    /\ tool = NoToolchain

\* no poll loop entered on its own
PollIdle == loop = NoLoop

\* no archive being read on its own
NoReader ==
    [pc |-> "idle", path |-> << >>, archive |-> << >>, end |-> "eof",
     pos |-> 0, data |-> {}, err |-> "none"]
TarIdle == rdr = NoReader

\* no batch inbox address derived on its own
NoInbox == [pc |-> "idle", ids |-> << >>, big |-> << >>, addr |-> << >>]
InboxIdle == inbox = NoInbox
UnitsIdle == KeygenIdle /\ RoundTripIdle /\ BackendIdle /\ PollIdle /\ TarIdle
             /\ InboxIdle

\* the state before the first run: the operator's seed phrase gives one of
\* the key generators
InitWith(intents, keygens) ==
    /\ PipeInit(intents)
    /\ keygen \in keygens
    /\ UnitsIdle

Init == InitWith(Intents, { MnemonicKeyGenerator(TestMnemonic) })

InitOverride == InitWith(OverrideIntents, { MnemonicKeyGenerator(TestMnemonic) })

Running == cmd # "idle" /\ ret = "none"

\* the stage function returns e: Deploy runs in a goroutine that sends its
\* result on errCh (deploy.go:94-97), Configure and Genesis return it to the
\* CLI action directly (cli.go:47, part_003:64)
Finish(e) ==
    /\ pc' = "done"
    /\ IF cmd = "deploy"
         THEN errCh' = {e} /\ ret' = ret
         ELSE ret' = e /\ errCh' = errCh

\* a fresh process: everything but the disk and the chain is reset
\* (the operator reads the state document and writes it back, or writes to a
\* path that does not exist yet)
Start(c, i, o, l, p) ==
    /\ ~Running
    /\ i = StatePath
    /\ files[OtherPath] = Absent
    /\ cmd' = c
    /\ pc' = p
    /\ inf' = i
    /\ outf' = o
    /\ local' = l
    /\ st' = {}
    /\ ctxDone' = FALSE
    /\ sigs' = FALSE
    /\ errCh' = {}
    /\ ret' = "none"
    /\ submitted' = 0
    /\ polls' = 0
    /\ ctr' = "none"
    /\ proc' = "none"
    /\ cmdErrCh' = {}
    /\ art' = {}
    /\ hist' = [NoHist EXCEPT !.orig = files[o]]
    /\ UNCHANGED << unitVars, files, chain >>

----------------------------------------------------------------------------
(* state.go: WriteDeploymentState as the last two steps of every stage *)

\* os.OpenFile(path, O_CREATE|O_TRUNC|O_WRONLY): the file is emptied before
\* anything is encoded
WriteOpen ==
    /\ Running /\ pc = "w_open"
    /\ \/ /\ files' = OpenTrunc(outf)
          /\ pc' = "w_encode"
          /\ hist' = [hist EXCEPT !.opened = TRUE]
          /\ UNCHANGED << ret, errCh >>
       \/ /\ Finish("error")
          /\ UNCHANGED << files, hist >>
    /\ UNCHANGED << unitVars, chain, cmd, inf, outf, st, ctxDone, sigs, local, submitted,
                    polls, ctr, proc, cmdErrCh, art >>

\* encoder.Encode(state): the whole document in one write, or an error that
\* leaves the file empty or cut off
WriteEncode ==
    /\ Running /\ pc = "w_encode"
    /\ \/ /\ \E d \in st : files' = Encode(outf, d)
          /\ Finish("ok")
       \/ /\ files' \in { files, [files EXCEPT ![outf] = Partial] }
          /\ Finish("error")
    /\ UNCHANGED << unitVars, chain, cmd, inf, outf, st, ctxDone, sigs, local, submitted,
                    polls, ctr, proc, cmdErrCh, art, hist >>

----------------------------------------------------------------------------
(* cli.go:36-88: Configure *)

StartConfigure(i, o) == Start("configure", i, o, FALSE, "read")

\* ethclient.Dial, ReadDeploymentState, the nil-intent check and
\* NewMnemonicKeyGenerator
ConfigureRead ==
    /\ Running /\ cmd = "configure" /\ pc = "read"
    /\ LET s == ReadDeploymentState(inf) IN
       \/ /\ s # {} /\ (\E d \in s : d.intent # {})
          /\ st' = s
          /\ hist' = [hist EXCEPT !.read = s]
          /\ pc' = "head"
          /\ UNCHANGED << ret, errCh >>
       \/ /\ Finish("error")
          /\ UNCHANGED << st, hist >>
    /\ UNCHANGED << unitVars, files, chain, cmd, inf, outf, ctxDone, sigs, local,
                    submitted, polls, ctr, proc, cmdErrCh, art >>

\* NewDeployConfig, first step (part_006:73-78): the head block of the
\* anchor chain is fetched before anything else is looked at
ConfigureHead ==
    /\ Running /\ cmd = "configure" /\ pc = "head"
    /\ \/ \E head \in Blocks :
            /\ hist' = [hist EXCEPT !.fetched = TRUE, !.head = { head }]
            /\ pc' = "derive"
            /\ UNCHANGED << ret, errCh >>
       \/ /\ hist' = [hist EXCEPT !.fetched = TRUE]
          /\ Finish("error")
    /\ UNCHANGED << unitVars, files, chain, cmd, inf, outf, st, ctxDone, sigs,
                    local, submitted, polls, ctr, proc, cmdErrCh, art >>

\* (for comparison: a Configure that changes only the deployConfig of the
\* state it read)
ConfiguredState_Carry(d, cfg) == [d EXCEPT !.deployConfig = cfg]
\* &DeploymentState{Intent: state.Intent, DeployConfig: deployConfig}
\* (cli.go:82-87): the fields the literal does not name are nil
ConfiguredState(d, cfg) == DeploymentState(d.intent, cfg, {}, {}, {})

\* the rest of NewDeployConfig(keygen, l1Client, state.Intent), then the
\* new DeploymentState{Intent, DeployConfig} that is written
ConfigureDerive ==
    /\ Running /\ cmd = "configure" /\ pc = "derive"
    /\ \E head \in hist.head, d \in st, i \in UNION { x.intent : x \in st } :
         LET r == NewDeployConfig(keygen, head, i) IN
         /\ hist' = [hist EXCEPT !.derived = { r }]
         /\ IF r.err = "nil"
            THEN /\ st' = { ConfiguredState(d, r.cfg) }
                 /\ pc' = "w_open"
                 /\ UNCHANGED << ret, errCh >>
            ELSE /\ Finish("error")
                 /\ UNCHANGED st
    /\ UNCHANGED << unitVars, files, chain, cmd, inf, outf, ctxDone, sigs, local,
                    submitted, polls, ctr, proc, cmdErrCh, art >>

----------------------------------------------------------------------------
(* deploy.go:61-108: DeployCLI *)

\* config.Check passed; ctx, cancel := context.WithCancel; signal.Notify;
\* go Deploy(ctx, config)
StartDeploy(i, o, l) == Start("deploy", i, o, l, "read")

\* select, case err := <-errCh: return err (and the deferred cancel)
DeployCLIRecv ==
    /\ Running /\ cmd = "deploy" /\ ~ctxDone
    /\ \E e \in errCh : ret' = e
    /\ ctxDone' = TRUE
    /\ UNCHANGED << unitVars, files, chain, cmd, pc, inf, outf, st, sigs, errCh, local,
                    submitted, polls, ctr, proc, cmdErrCh, art, hist >>

\* select, case <-sigs: cancel()
DeployCLISignal ==
    /\ Running /\ cmd = "deploy" /\ ~ctxDone /\ sigs
    /\ ctxDone' = TRUE
    /\ sigs' = FALSE
    /\ UNCHANGED << unitVars, files, chain, cmd, pc, inf, outf, st, errCh, ret, local,
                    submitted, polls, ctr, proc, cmdErrCh, art, hist >>

\* what DeployCLI returns after cancel() and <-errCh (deploy.go:103-105)
DeployCLIAfterSignal(e) == "ok"

\* (for comparison: a DeployCLI that returns right after cancel())
DeployCLIDrain_NoWait ==
    /\ Running /\ cmd = "deploy" /\ ctxDone
    /\ ret' = "ok"
    /\ UNCHANGED << unitVars, files, chain, cmd, pc, inf, outf, st, ctxDone, sigs, errCh,
                    local, submitted, polls, ctr, proc, cmdErrCh, art, hist >>

\* ... <-errCh; return nil
DeployCLIDrain ==
    /\ Running /\ cmd = "deploy" /\ ctxDone
    /\ \E e \in errCh : ret' = DeployCLIAfterSignal(e)
    /\ UNCHANGED << unitVars, files, chain, cmd, pc, inf, outf, st, ctxDone, sigs, errCh,
                    local, submitted, polls, ctr, proc, cmdErrCh, art, hist >>

----------------------------------------------------------------------------
(* deploy.go:110-153: Deploy, up to the backend *)

\* ReadDeploymentState(config.Infile)
DeployRead ==
    /\ Running /\ cmd = "deploy" /\ pc = "read"
    /\ LET s == ReadDeploymentState(inf) IN
       IF s # {}
       THEN /\ st' = s
            /\ hist' = [hist EXCEPT !.read = s]
            /\ pc' = "cc2_code"
            /\ UNCHANGED << ret, errCh >>
       ELSE /\ Finish("error")
            /\ UNCHANGED << st, hist >>
    /\ UNCHANGED << unitVars, files, chain, cmd, inf, outf, ctxDone, sigs, local,
                    submitted, polls, ctr, proc, cmdErrCh, art >>

\* a Deploy that logs the error of checkCreate2 and goes on
AfterCheckCreate2_Ignore(h, e) ==
    /\ pc' = "backend"
    /\ hist' = [h EXCEPT !.bootErr = (e # "ok")]
    /\ UNCHANGED << ret, errCh >>

\* Deploy's handling of checkCreate2's result (deploy.go:121-123): nil goes
\* on to the backend, an error is wrapped and returned
AfterCheckCreate2(h, e) ==
    IF e = "ok"
    THEN /\ pc' = "backend"
         /\ hist' = h
         /\ UNCHANGED << ret, errCh >>
    ELSE /\ Finish(e)
         /\ hist' = [h EXCEPT !.bootErr = TRUE]

----------------------------------------------------------------------------
(* deploy.go:155-212: checkCreate2 *)

\* rpc.Dial, then ec.CodeAt(context.Background(), Create2Address, nil):
\* the read does not take the stage's context
CheckCreate2CodeAt ==
    /\ Running /\ cmd = "deploy" /\ pc = "cc2_code"
    /\ LET g == [hist EXCEPT !.codeAtStart = chain.code[CanonicalCreate2Address]]
           h == Called(g, "CodeAt", FALSE)
       IN
       \/ /\ chain.code[Create2Address]
          /\ pc' = "backend"
          /\ hist' = h
          /\ UNCHANGED << ret, errCh >>
       \/ /\ ~chain.code[Create2Address]
          /\ pc' = "cc2_send"
          /\ hist' = h
          /\ UNCHANGED << ret, errCh >>
       \/ /\ Finish("error")
          /\ hist' = [Called(g, "CodeAt", TRUE) EXCEPT !.bootErr = TRUE]
    /\ UNCHANGED << unitVars, files, chain, cmd, inf, outf, st, ctxDone, sigs, local,
                    submitted, polls, ctr, proc, cmdErrCh, art >>

\* rc.CallContext(ctx, &txHash, "eth_sendRawTransaction", Create2Bytecode):
\* a cancelled context fails the call before it is sent; the node takes the
\* presigned transaction only if it is not already known or mined
CheckCreate2Send ==
    /\ Running /\ cmd = "deploy" /\ pc = "cc2_send"
    /\ IF ctxDone
       THEN /\ AfterCheckCreate2(Called(hist, "eth_sendRawTransaction", TRUE),
                                  "cancelled")
            /\ UNCHANGED << chain, submitted >>
       ELSE /\ submitted' = submitted + 1
            /\ \/ /\ chain.tx = "none"
                  /\ chain' = [chain EXCEPT !.tx = "pending"]
                  /\ pc' = "cc2_poll"
                  /\ hist' = Called(hist, "eth_sendRawTransaction", FALSE)
                  /\ UNCHANGED << ret, errCh >>
               \/ /\ AfterCheckCreate2(Called(hist, "eth_sendRawTransaction", TRUE),
                                        "error")
                  /\ UNCHANGED chain
    /\ UNCHANGED << unitVars, files, cmd, inf, outf, st, ctxDone, sigs, local, polls,
                    ctr, proc, cmdErrCh, art >>

\* (for comparison: a poll loop that asks again when a query fails)
OnReceipt_RetryOnError(r) ==
    CASE r = "notfound" -> "retry"
      [] r = "rpcerror" -> "retry"
      [] r = "status0"  -> "error"
      [] r = "status1"  -> "ok"

\* (for comparison: a poll loop that goes on until the receipt is a success)
OnReceipt_WaitForSuccess(r) ==
    CASE r = "notfound" -> "retry"
      [] r = "rpcerror" -> "error"
      [] r = "status0"  -> "retry"
      [] r = "status1"  -> "ok"

\* (for comparison: a poll loop that takes any receipt as success)
OnReceipt_AnyReceipt(r) ==
    CASE r = "notfound" -> "retry"
      [] r = "rpcerror" -> "error"
      [] r = "status0"  -> "ok"
      [] r = "status1"  -> "ok"
\* what the poll loop does with one answer of ec.TransactionReceipt
\* (deploy.go:197-207): "retry" stays in the loop
OnReceipt(r) ==
    CASE r = "notfound" -> "retry"
      [] r = "rpcerror" -> "error"
      [] r = "status0"  -> "error"
      [] r = "status1"  -> "ok"

\* a loop that goes back to the submission
PollAgain_Resubmit == "cc2_send"

\* where `continue` takes the loop (deploy.go:194-200): back to the select,
\* not to the submission
PollAgain == "cc2_poll"

\* the answers the anchor chain can give to a receipt query
Receipts ==
    { "rpcerror" } \cup
    (IF chain.tx = "ok" THEN { "status1" }
     ELSE IF chain.tx = "fail" THEN { "status0" }
     ELSE IF polls < MaxPolls THEN { "notfound" } ELSE {})

\* case <-tick.C: ec.TransactionReceipt(ctx, txHash)
CheckCreate2Tick ==
    /\ Running /\ cmd = "deploy" /\ pc = "cc2_poll"
    /\ IF ctxDone
       THEN /\ AfterCheckCreate2(Called(hist, "TransactionReceipt", TRUE),
                                  "cancelled")
            /\ UNCHANGED polls
       ELSE \E r \in Receipts :
              LET h == Called(hist, "TransactionReceipt", r = "rpcerror") IN
              IF OnReceipt(r) = "retry"
              THEN /\ polls' = polls + 1
                   /\ pc' = PollAgain
                   /\ hist' = h
                   /\ UNCHANGED << ret, errCh >>
              ELSE /\ AfterCheckCreate2(h, OnReceipt(r))
                   /\ UNCHANGED polls
    /\ UNCHANGED << unitVars, files, chain, cmd, inf, outf, st, ctxDone, sigs, local,
                    submitted, ctr, proc, cmdErrCh, art >>

\* case <-ctx.Done(): return ctx.Err()
CheckCreate2CtxDone ==
    /\ Running /\ cmd = "deploy" /\ pc = "cc2_poll" /\ ctxDone
    /\ AfterCheckCreate2(hist, "cancelled")
    /\ UNCHANGED << unitVars, files, chain, cmd, inf, outf, st, ctxDone, sigs, local,
                    submitted, polls, ctr, proc, cmdErrCh, art >>

\* the anchor chain mines the bootstrap transaction: it creates the helper at
\* the canonical address, or fails (always, when code is already there)
MineTx ==
    /\ chain.tx = "pending"
    /\ \/ /\ ~chain.code[CanonicalCreate2Address]
          /\ chain' = [chain EXCEPT !.tx = "ok",
                                    !.code[CanonicalCreate2Address] = TRUE]
       \/ chain' = [chain EXCEPT !.tx = "fail"]
    /\ UNCHANGED << unitVars, files, cmd, pc, inf, outf, st, ctxDone, sigs, errCh, ret,
                    local, submitted, polls, ctr, proc, cmdErrCh, art, hist >>

\* NewLocalBackend / NewDockerBackend, and the call of backend.Deploy
DeployBackend ==
    /\ Running /\ cmd = "deploy" /\ pc = "backend"
    /\ \/ /\ pc' = IF local THEN "l_start" ELSE "d_image"
          /\ hist' = [hist EXCEPT !.backend = "invoked"]
          /\ UNCHANGED << ret, errCh >>
       \/ /\ ~local
          /\ Finish("error")
          /\ UNCHANGED hist
    /\ UNCHANGED << unitVars, files, chain, cmd, inf, outf, st, ctxDone, sigs, local,
                    submitted, polls, ctr, proc, cmdErrCh, art >>

----------------------------------------------------------------------------
(* cli.go:135-421: DockerBackend, used by Deploy and by Genesis *)

\* the error a docker / RPC client call returns for this context: a cancelled
\* context fails the request with the context's error (wrapped with %w)
CtxErr == IF ctxDone THEN "cancelled" ELSE "error"

\* ensureImage: ImageList, and ImagePull when the image is missing
DockerEnsureImage ==
    /\ Running /\ pc = "d_image"
    /\ \/ /\ ~ctxDone
          /\ pc' = "d_create"
          /\ hist' = Called(hist, "ensureImage", FALSE)
          /\ UNCHANGED << ret, errCh >>
       \/ /\ Finish(CtxErr)
          /\ hist' = Called(hist, "ensureImage", TRUE)
    /\ UNCHANGED << unitVars, files, chain, cmd, inf, outf, st, ctxDone, sigs, local,
                    submitted, polls, ctr, proc, cmdErrCh, art >>

\* the input files written to temp files and mounted, then ContainerCreate
DockerCreate ==
    /\ Running /\ pc = "d_create"
    /\ \/ /\ ~ctxDone
          /\ ctr' = "created"
          /\ pc' = "d_start"
          /\ hist' = Called(hist, "ContainerCreate", FALSE)
          /\ UNCHANGED << ret, errCh >>
       \/ /\ Finish(CtxErr)
          /\ hist' = Called(hist, "ContainerCreate", TRUE)
          /\ UNCHANGED ctr
    /\ UNCHANGED << unitVars, files, chain, cmd, inf, outf, st, ctxDone, sigs, local,
                    submitted, polls, proc, cmdErrCh, art >>

\* runContainer: ContainerStart, go streamLogs
DockerStart ==
    /\ Running /\ pc = "d_start"
    /\ \/ /\ ~ctxDone
          /\ ctr' = "running"
          /\ pc' = "d_await"
          /\ hist' = [Go(Called(hist, "ContainerStart", FALSE), "streamLogs")
                        EXCEPT !.logs = "opening"]
          /\ UNCHANGED << ret, errCh >>
       \/ /\ Finish(CtxErr)
          /\ hist' = Called(hist, "ContainerStart", TRUE)
          /\ UNCHANGED ctr
    /\ UNCHANGED << unitVars, files, chain, cmd, inf, outf, st, ctxDone, sigs, local,
                    submitted, polls, proc, cmdErrCh, art >>

\* streamLogs, the goroutine of runContainer (cli.go:337-349):
\* d.dkr.ContainerLogs(ctx, id, ...) gives the stream that StdCopy then
\* copies for as long as the container writes, or it fails (always so with
\* a cancelled ctx) and gives a nil stream: the error is logged, the
\* function goes on to defer stream.Close() and StdCopy(..., stream) with
\* that nil stream, and the nil dereference panics in a goroutine with no
\* recover, which ends the process
StreamLogs ==
    /\ Running /\ hist.logs = "opening"
    /\ \/ /\ ~ctxDone
          /\ hist' = [hist EXCEPT !.logs = "streaming"]
          /\ UNCHANGED << ret, pc >>
       \/ /\ hist' = [hist EXCEPT !.logs = "failed"]
          /\ ret' = "crash"
          /\ pc' = "dead"
    /\ UNCHANGED << unitVars, files, chain, cmd, inf, outf, st, ctxDone, sigs, errCh,
                    local, submitted, polls, ctr, proc, cmdErrCh, art >>

\* the toolchain in the container ends with an exit status
ContainerExit ==
    /\ ctr = "running"
    /\ ctr' \in { "exited0", "exited1" }
    /\ UNCHANGED << unitVars, files, chain, cmd, pc, inf, outf, st, ctxDone, sigs, errCh,
                    ret, local, submitted, polls, proc, cmdErrCh, art, hist >>

\* d.dkr.ContainerStop(ctx, id, ...) as awaitContainerExit calls it
\* (cli.go:403): the request carries ctx, and a request with a cancelled
\* context is not sent
ContainerStop(c, done) ==
    IF done THEN c ELSE IF c = "running" THEN "stopped" ELSE c

\* awaitContainerExit, case err := <-errCh: the wait request failed, with the
\* context's error when the context is cancelled
DockerAwaitErr ==
    /\ Running /\ pc = "d_await"
    /\ Finish(CtxErr)
    /\ hist' = [hist EXCEPT !.cancelRunning = (ctxDone /\ ctr = "running")]
    /\ UNCHANGED << unitVars, files, chain, cmd, inf, outf, st, ctxDone, sigs, local,
                    submitted, polls, ctr, proc, cmdErrCh, art >>

\* awaitContainerExit, case <-ctx.Done(): ContainerStop, return ctx.Err()
DockerAwaitCtxDone ==
    /\ Running /\ pc = "d_await" /\ ctxDone
    /\ ctr' = ContainerStop(ctr, ctxDone)
    /\ Finish("cancelled")
    /\ hist' = [hist EXCEPT !.cancelRunning = (ctr = "running")]
    /\ UNCHANGED << unitVars, files, chain, cmd, inf, outf, st, ctxDone, sigs, local,
                    submitted, polls, proc, cmdErrCh, art >>

\* (for comparison: a wait that takes any exit status for success)
DockerAwaitStatus_AnyStatus ==
    /\ Running /\ pc = "d_await" /\ ctr \in { "exited0", "exited1" }
    /\ pc' = "d_read"
    /\ UNCHANGED << unitVars, files, chain, cmd, inf, outf, st, ctxDone, sigs, local,
                    submitted, polls, ctr, proc, cmdErrCh, art, hist, ret, errCh >>
\* awaitContainerExit, case status := <-statusCh
DockerAwaitStatus ==
    /\ Running /\ pc = "d_await" /\ ctr \in { "exited0", "exited1" }
    /\ IF ctr = "exited0"
       THEN /\ pc' = "d_read"
            /\ UNCHANGED << ret, errCh >>
       ELSE Finish("error")
    /\ UNCHANGED << unitVars, files, chain, cmd, inf, outf, st, ctxDone, sigs, local,
                    submitted, polls, ctr, proc, cmdErrCh, art, hist >>

\* the allocation dump the L2Genesis script writes for this deploy config
\* and these addresses
ForgeAllocs(d) == [config |-> d.deployConfig, addresses |-> d.addresses]

\* readAddressesFile / readFileFromContainer: CopyFromContainer, the tar
\* entry, and for Deploy the decoding and state.Addresses = addresses
\* (deploy.go:145)
DockerRead ==
    /\ Running /\ pc = "d_read"
    /\ \/ /\ ~ctxDone /\ cmd = "deploy"
          /\ \E a \in AddressSets :
               /\ art' = {a}
               /\ st' = { [d EXCEPT !.addresses = {a}] : d \in st }
          /\ pc' = "w_open"
          /\ UNCHANGED << ret, errCh >>
       \/ /\ ~ctxDone /\ cmd = "genesis"
          /\ art' = { ForgeAllocs(d) : d \in st }
          /\ pc' = "g_build"
          /\ UNCHANGED << st, ret, errCh >>
       \/ /\ Finish(CtxErr)
          /\ UNCHANGED << st, art >>
    /\ UNCHANGED << unitVars, files, chain, cmd, inf, outf, ctxDone, sigs, local,
                    submitted, polls, ctr, proc, cmdErrCh, hist >>

----------------------------------------------------------------------------
(* cli.go:423-560: LocalBackend *)

\* LocalBackend.Deploy: os.CreateTemp, exec.Command("bash", "deploy.sh"),
\* cmd.Start, and awaitCommand's go cmd.Wait()
LocalStart ==
    /\ Running /\ pc = "l_start"
    /\ \/ /\ proc' = "running"
          /\ pc' = "l_await"
          /\ hist' = Go(hist, "cmd.Wait")
          /\ UNCHANGED << ret, errCh >>
       \/ /\ Finish("error")
          /\ UNCHANGED << proc, hist >>
    /\ UNCHANGED << unitVars, files, chain, cmd, inf, outf, st, ctxDone, sigs, local,
                    submitted, polls, ctr, cmdErrCh, art >>

\* the subprocess ends by itself with an exit status, or dies of the kill
ProcExit ==
    /\ proc \in { "running", "killing" }
    /\ proc' \in IF proc = "killing" THEN { "signaled" } ELSE { "exited0", "exited1" }
    /\ UNCHANGED << unitVars, files, chain, cmd, pc, inf, outf, st, ctxDone, sigs, errCh,
                    ret, local, submitted, polls, ctr, cmdErrCh, art, hist >>

\* the goroutine of awaitCommand: err := cmd.Wait(); cmdErrCh <- err
CmdWait ==
    /\ Running /\ pc \in { "l_await", "l_drain" }
    /\ proc \in { "exited0", "exited1", "signaled" }
    /\ cmdErrCh' = { IF proc = "exited0" THEN "ok" ELSE "error" }
    /\ proc' = "reaped"
    /\ UNCHANGED << unitVars, files, chain, cmd, pc, inf, outf, st, ctxDone, sigs, errCh,
                    ret, local, submitted, polls, ctr, art, hist >>

\* cmd.Process.Kill() (cli.go:546): SIGKILL to a process that still runs
Kill(p) == IF p = "running" THEN "killing" ELSE p

\* an awaitCommand that returns right after the kill
AfterKill_NoWait == "done"

\* where awaitCommand goes after the kill (cli.go:550): it receives from
\* cmdErrCh before it returns
AfterKill == "l_drain"

\* awaitCommand, case <-ctx.Done(): kill the subprocess
LocalAwaitCtxDone ==
    /\ Running /\ pc = "l_await" /\ ctxDone
    /\ proc' = Kill(proc)
    /\ hist' = [hist EXCEPT !.cancelRunning = (proc = "running" /\ cmdErrCh = {})]
    /\ IF AfterKill = "l_drain"
       THEN pc' = "l_drain" /\ UNCHANGED << ret, errCh >>
       ELSE Finish("cancelled")
    /\ UNCHANGED << unitVars, files, chain, cmd, inf, outf, st, ctxDone, sigs, local,
                    submitted, polls, ctr, cmdErrCh, art >>

\* ... <-cmdErrCh; return ctx.Err()
LocalAwaitDrain ==
    /\ Running /\ pc = "l_drain" /\ cmdErrCh # {}
    /\ Finish("cancelled")
    /\ UNCHANGED << unitVars, files, chain, cmd, inf, outf, st, ctxDone, sigs, local,
                    submitted, polls, ctr, proc, cmdErrCh, art, hist >>

\* awaitCommand, case err := <-cmdErrCh
LocalAwaitCmd ==
    /\ Running /\ pc = "l_await"
    /\ \E e \in cmdErrCh :
         IF e = "ok"
         THEN /\ pc' = "l_read"
              /\ UNCHANGED << ret, errCh >>
         ELSE Finish("error")
    /\ UNCHANGED << unitVars, files, chain, cmd, inf, outf, st, ctxDone, sigs, local,
                    submitted, polls, ctr, proc, cmdErrCh, art, hist >>

\* os.Open of deployments/deployment.json, the decoding, and
\* state.Addresses = addresses (deploy.go:145)
LocalRead ==
    /\ Running /\ pc = "l_read"
    /\ \/ /\ \E a \in AddressSets :
               /\ art' = {a}
               /\ st' = { [d EXCEPT !.addresses = {a}] : d \in st }
          /\ pc' = "w_open"
          /\ UNCHANGED << ret, errCh >>
       \/ /\ Finish("error")
          /\ UNCHANGED << st, art >>
    /\ UNCHANGED << unitVars, files, chain, cmd, inf, outf, ctxDone, sigs, local,
                    submitted, polls, ctr, proc, cmdErrCh, hist >>

----------------------------------------------------------------------------
(* part_003: GenesisCLI and Genesis *)

\* config.Check passed; Genesis(context.Background(), config)
StartGenesis(i, o) == Start("genesis", i, o, FALSE, "read")

\* what Genesis does with the state it read (part_003:77-90): "error" for
\* the missing addresses, "panic" for state.DeployConfig.L2ChainID on a nil
\* DeployConfig, "run" for the call of the backend
GenesisGuard(d) ==
    IF d.addresses = {} THEN "error"
    ELSE IF d.deployConfig = {} THEN "panic"
    ELSE "run"

\* ReadDeploymentState, the addresses check, NewDockerBackend, and the
\* arguments of backend.GenesisAllocs
GenesisRead ==
    /\ Running /\ cmd = "genesis" /\ pc = "read"
    /\ LET s == ReadDeploymentState(inf) IN
       \/ /\ s = {}
          /\ Finish("error")
          /\ UNCHANGED << st, hist >>
       \/ \E d \in s :
            /\ st' = s
            /\ \/ /\ GenesisGuard(d) = "error"
                  /\ Finish("error")
                  /\ hist' = [hist EXCEPT !.read = s]
               \/ /\ GenesisGuard(d) # "error"    \* NewDockerBackend fails
                  /\ Finish("error")
                  /\ hist' = [hist EXCEPT !.read = s]
               \/ /\ GenesisGuard(d) = "panic"
                  /\ ret' = "panic"
                  /\ pc' = "dead"
                  /\ hist' = [hist EXCEPT !.read = s, !.backend = "created"]
                  /\ UNCHANGED errCh
               \/ /\ GenesisGuard(d) = "run"
                  /\ pc' = "d_image"
                  /\ hist' = [hist EXCEPT !.read = s, !.backend = "invoked"]
                  /\ UNCHANGED << ret, errCh >>
    /\ UNCHANGED << unitVars, files, chain, cmd, inf, outf, ctxDone, sigs, local,
                    submitted, polls, ctr, proc, cmdErrCh, art >>

\* the per-chain entries Genesis stores (part_003:111-141): the genesis block
\* built from the config, the allocations and the start block, and the
\* rollup config derived from the config and the start block
GenesisEntry(cfg, allocs, block) ==
    [chainID |-> cfg.L2ChainID, allocs |-> allocs.addresses, l1 |-> block]

RollupEntry(cfg, block) ==
    [L1ChainID |-> cfg.L1ChainID, L2ChainID |-> cfg.L2ChainID, l1 |-> block]

\* the key of the entries Genesis stores (part_003:140-141)
GenesisKey(d, cfg) == cfg.L2ChainID

\* (for comparison: a Genesis that stores the genesis file only)
SetRollupConfig_Skip(m, k, v) == m
\* state.RollupConfigs[state.DeployConfig.L2ChainID] = rollupConfig
\* (part_003:141)
SetRollupConfig(m, k, v) == MapPut(m, k, v)

\* (for comparison: a Genesis that builds on the anchor chain's latest block)
BlockByHash_Latest(h) == Blocks

\* ethClient.BlockByHash(ctx, hash) (part_003:105): the blocks the anchor
\* chain can answer with; a block is named by its hash
BlockByHash(h) == { b \in Blocks : b = h }

\* json.Unmarshal of the allocations, ethClient.BlockByHash of the starting
\* block, BuildL2Genesis, RollupConfig and its Check, gzip, and the two maps
GenesisBuild ==
    /\ Running /\ cmd = "genesis" /\ pc = "g_build"
    /\ \/ /\ Finish("error")                     \* the allocations do not decode
          /\ UNCHANGED << st, hist >>
       \/ /\ Finish("error")                     \* the chain has no such block
          /\ hist' = [hist EXCEPT !.asked = TRUE]
          /\ UNCHANGED st
       \/ \E d \in st, cfg \in UNION { x.deployConfig : x \in st }, al \in art :
            \E block \in BlockByHash(cfg.L1StartingBlockHash) :
              LET k == GenesisKey(d, cfg) IN
              /\ hist' = [hist EXCEPT !.asked = TRUE, !.start = { block }]
              /\ \/ /\ st' = { [d EXCEPT
                              !.genesisFiles = MapPut(@, k, GenesisEntry(cfg, al, block)),
                              !.rollupConfigs = SetRollupConfig(@, k, RollupEntry(cfg, block))] }
                    /\ pc' = "w_open"
                    /\ UNCHANGED << ret, errCh >>
                 \/ /\ Finish("error")           \* the build or the check fails
                    /\ UNCHANGED st
    /\ UNCHANGED << unitVars, files, chain, cmd, inf, outf, ctxDone, sigs, local,
                    submitted, polls, ctr, proc, cmdErrCh, art >>

----------------------------------------------------------------------------
(* The environment of a run *)

\* an interrupt signal: DeployCLI buffers it in sigs (signal.Notify, one
\* slot); Configure and Genesis install no handler, so the runtime ends the
\* process
Interrupt ==
    /\ Running /\ ~ctxDone /\ ~sigs
    /\ IF cmd = "deploy"
       THEN /\ sigs' = TRUE
            /\ UNCHANGED << ret, pc >>
       ELSE /\ ret' = "killed"
            /\ pc' = "dead"
            /\ UNCHANGED sigs
    /\ hist' = [hist EXCEPT !.sig = pc]
    /\ UNCHANGED << unitVars, files, chain, cmd, inf, outf, st, ctxDone, errCh, local,
                    submitted, polls, ctr, proc, cmdErrCh, art >>

\* between runs the operator moves a written output document over the state
\* document
Promote ==
    /\ ~Running
    /\ files[OtherPath].kind = "doc"
    /\ files' = [files EXCEPT ![StatePath] = files[OtherPath], ![OtherPath] = Absent]
    /\ UNCHANGED << unitVars, chain, cmd, pc, inf, outf, st, ctxDone, sigs, errCh, ret,
                    local, submitted, polls, ctr, proc, cmdErrCh, art, hist >>

\* ... or removes whatever a run left at the other path
Remove ==
    /\ ~Running
    /\ files[OtherPath] # Absent
    /\ files' = [files EXCEPT ![OtherPath] = Absent]
    /\ UNCHANGED << unitVars, chain, cmd, pc, inf, outf, st, ctxDone, sigs, errCh, ret,
                    local, submitted, polls, ctr, proc, cmdErrCh, art, hist >>

\* the machine or the process dies
Crash ==
    /\ Running
    /\ ret' = "crash"
    /\ pc' = "dead"
    /\ UNCHANGED << unitVars, files, chain, cmd, inf, outf, st, ctxDone, sigs, errCh,
                    local, submitted, polls, ctr, proc, cmdErrCh, art, hist >>

Next ==
    \/ \E o \in Paths : StartConfigure(StatePath, o)
    \/ ConfigureRead
    \/ ConfigureHead
    \/ ConfigureDerive
    \/ \E o \in Paths, l \in BOOLEAN : StartDeploy(StatePath, o, l)
    \/ DeployCLIRecv
    \/ DeployCLISignal
    \/ DeployCLIDrain
    \/ DeployRead
    \/ CheckCreate2CodeAt
    \/ CheckCreate2Send
    \/ CheckCreate2Tick
    \/ CheckCreate2CtxDone
    \/ MineTx
    \/ DeployBackend
    \/ DockerEnsureImage
    \/ DockerCreate
    \/ DockerStart
    \/ ContainerExit
    \/ DockerAwaitErr
    \/ DockerAwaitCtxDone
    \/ DockerAwaitStatus
    \/ DockerRead
    \/ LocalStart
    \/ ProcExit
    \/ CmdWait
    \/ LocalAwaitCtxDone
    \/ LocalAwaitDrain
    \/ LocalAwaitCmd
    \/ LocalRead
    \/ \E o \in Paths : StartGenesis(StatePath, o)
    \/ GenesisRead
    \/ GenesisBuild
    \/ WriteOpen
    \/ WriteEncode
    \/ Interrupt
    \/ Promote
    \/ Remove
    \/ Crash

Spec == Init /\ [][Next]_vars

\* the pipeline on an intent with overrides
SpecOverride == InitOverride /\ [][Next]_vars

----------------------------------------------------------------------------
(* Genesis on its own: over documents that hold entries of other chains *)

\* a chain id some earlier Genesis stored entries for
OtherChainID == 7

\* the per-chain maps of the document Genesis starts from: none, an entry of
\* another chain, or entries of that chain and of this one (built on block b
\* from the allocations for address set a)
GenesisMaps(val, own) ==
    { {},
      { [id |-> OtherChainID, val |-> val] },
      { [id |-> OtherChainID, val |-> val], [id |-> own, val |-> val] } }

\* the documents Configure and Deploy leave for an intent, without or with
\* an override above 2^53, the head block Configure fetched and the
\* addresses Deploy got, with the per-chain maps above
GenesisDocs ==
    LET intents ==
            { Intent(1, 42, FALSE, FALSE, FALSE, NoOverrides),
              Intent(1, 42, FALSE, FALSE, FALSE,
                     Overrides({ [id |-> "l2ChainID", val |-> Num(Two53 + 1)] })) }
        configs(i) ==
            UNION { NewDeployConfig(MnemonicKeyGenerator(TestMnemonic), b,
                                    DecodeIntent(i)).cfg : b \in Blocks }
        genesis(c, a) ==
            [chainID |-> OtherChainID, allocs |-> { a }, l1 |-> c.L1StartingBlockHash]
        rollup(c) ==
            [L1ChainID |-> c.L1ChainID, L2ChainID |-> OtherChainID,
             l1 |-> c.L1StartingBlockHash]
        docs(i, c, a) ==
            { DeploymentState({ i }, { c }, { a }, gf, rc) :
                gf \in GenesisMaps(genesis(c, a), c.L2ChainID),
                rc \in GenesisMaps(rollup(c), c.L2ChainID) }
    IN UNION { UNION { UNION { docs(i, c, a) : a \in AddressSets } :
                       c \in configs(i) } : i \in intents }

InitGenesis ==
    /\ PipeInitDocs(GenesisDocs)
    /\ \A a \in DOMAIN chain.code : ~chain.code[a]
    /\ keygen = MnemonicKeyGenerator(TestMnemonic)
    /\ UnitsIdle

NextGenesis ==
    \/ \E o \in Paths : StartGenesis(StatePath, o)
    \/ GenesisRead
    \/ DockerEnsureImage
    \/ DockerCreate
    \/ DockerStart
    \/ ContainerExit
    \/ DockerAwaitErr
    \/ DockerAwaitStatus
    \/ DockerRead
    \/ GenesisBuild
    \/ WriteOpen
    \/ WriteEncode
    \/ Promote
    \/ Remove

SpecGenesis == InitGenesis /\ [][NextGenesis]_vars

\* Genesis with the goroutine that runContainer starts taking its steps
\* (in the other specifications the one effect it can have on a run, the
\* end of the process, is part of Crash)
NextStream ==
    \/ NextGenesis
    \/ StreamLogs

SpecStream == InitGenesis /\ [][NextStream]_vars
----------------------------------------------------------------------------
(* The configuration deriver on its own: Configure over many intents *)

\* the chain ids of the intents: unset, small, and one above 2^53
DeriveChainIDs == { 0, 1, 42, Two53 + 1 }

\* the override maps of the intents: none, an empty map, a chain id, a chain
\* id above 2^53, a chain id and an address, a zero chain id, a key that names no field of the
\* configuration, and a value of the wrong type
DeriveOverrides ==
    { NoOverrides,
      Overrides({}),
      Overrides({ [id |-> "l2ChainID", val |-> Num(43)] }),
      Overrides({ [id |-> "l2ChainID", val |-> Num(Two53 + 1)] }),
      Overrides({ [id |-> "l2ChainID", val |-> Num(43)],
                  [id |-> "batchSenderAddress", val |-> Str(7)] }),
      Overrides({ [id |-> "l1ChainID", val |-> Num(0)] }),
      Overrides({ [id |-> "l2ChainId2", val |-> Num(43)] }),
      Overrides({ [id |-> "useAltDA", val |-> Num(1)] }) }

DeriveIntents ==
    { Intent(l1, l2, fp, da, FALSE, ov) :
        l1 \in { 0, 1 }, l2 \in DeriveChainIDs, fp \in BOOLEAN, da \in BOOLEAN,
        ov \in DeriveOverrides }

\* the key generators: of every seed, and ones whose lookups fail
DeriveKeygens ==
    { FailingKeyGenerator(s, bad) :
        s \in Seeds,
        bad \in { {}, { "BatcherRole" }, { "L1ProxyAdminOwnerRole", "ProposerRole" } } }

\* (Configure does not touch the bootstrap helper: the chain has none)
InitDerive ==
    /\ InitWith(DeriveIntents, DeriveKeygens)
    /\ \A a \in DOMAIN chain.code : ~chain.code[a]

NextDerive ==
    \/ \E o \in Paths : StartConfigure(StatePath, o)
    \/ ConfigureRead
    \/ ConfigureHead
    \/ ConfigureDerive
    \/ WriteOpen
    \/ WriteEncode

SpecDerive == InitDerive /\ [][NextDerive]_vars

----------------------------------------------------------------------------
(* The key derivation service on its own: generators and calls on them *)

\* the calls one behaviour makes
MaxCalls == 3

\* the keys asked for: two roles on one chain, one of them on another chain
KeygenKeys ==
    { RoleKey("BatcherRole", 1), RoleKey("ProposerRole", 1),
      RoleKey("BatcherRole", 42) }

InitKeygen ==
    /\ PipeInit(Intents)
    /\ \A a \in DOMAIN chain.code : ~chain.code[a]
    /\ keygen = MnemonicKeyGenerator(TestMnemonic)
    /\ UnitsIdle

\* NewMnemonicKeyGenerator(mnemonic): a new generator object
NewMnemonicKeyGenerator ==
    /\ \E g \in GenIds, mnemonic \in Seeds :
         /\ gens[g] = {}
         /\ gens' = [gens EXCEPT ![g] = { MnemonicKeyGenerator(mnemonic) }]
    /\ UNCHANGED << pipeVars, keygen, klog, roundTripVars, backendVars, pollVars, tarVars, inboxVars >>

\* a call of Address on one of the generators
CallAddress ==
    /\ Len(klog) < MaxCalls
    /\ \E g \in GenIds, key \in KeygenKeys : \E m \in gens[g] :
         LET r == Address(m, key) IN
         klog' = Append(klog, [gen |-> g, seed |-> m.seed, kind |-> "Address",
                               key |-> key, val |-> r.addr, err |-> r.err])
    /\ UNCHANGED << pipeVars, keygen, gens, roundTripVars, backendVars, pollVars, tarVars, inboxVars >>

\* a call of PrivateKey on one of the generators
CallPrivateKey ==
    /\ Len(klog) < MaxCalls
    /\ \E g \in GenIds, key \in KeygenKeys : \E m \in gens[g] :
         LET r == PrivateKey(m, key) IN
         klog' = Append(klog, [gen |-> g, seed |-> m.seed, kind |-> "PrivateKey",
                               key |-> key, val |-> r.secret, err |-> r.err])
    /\ UNCHANGED << pipeVars, keygen, gens, roundTripVars, backendVars, pollVars, tarVars, inboxVars >>

NextKeygen ==
    \/ NewMnemonicKeyGenerator
    \/ CallAddress
    \/ CallPrivateKey

SpecKeygen == InitKeygen /\ [][NextKeygen]_vars

----------------------------------------------------------------------------
(* state.go on its own: a DeploymentState written and read back *)

\* the longest genesis blob, and the bytes its positions take
MaxBlobLen == 4
Bytes == { 0, 139, 255 }
Blobs == UNION { [1..k -> Bytes] : k \in 0..MaxBlobLen }

\* the first bytes of a gzip stream
GzipMagic == << 31, 139 >>

\* the padding character of base64.StdEncoding, after the 64 digits 0..63
Pad == 64

\* base64.StdEncoding.EncodeToString: three bytes to four digits, a last
\* group of one or two bytes padded to four characters
RECURSIVE EncodeToString(_)
EncodeToString(b) ==
    IF Len(b) = 0 THEN << >>
    ELSE IF Len(b) = 1
    THEN << b[1] \div 4, (b[1] % 4) * 16, Pad, Pad >>
    ELSE IF Len(b) = 2
    THEN << b[1] \div 4, (b[1] % 4) * 16 + b[2] \div 16, (b[2] % 16) * 4, Pad >>
    ELSE << b[1] \div 4, (b[1] % 4) * 16 + b[2] \div 16,
            (b[2] % 16) * 4 + b[3] \div 64, b[3] % 64 >>
         \o EncodeToString(SubSeq(b, 4, Len(b)))

\* base64.StdEncoding.DecodeString: four characters to three bytes, padding
\* only at the end of the last group; err for any other string
RECURSIVE DecodeString(_)
DecodeString(s) ==
    IF Len(s) = 0 THEN [b |-> << >>, err |-> FALSE]
    ELSE IF Len(s) < 4 \/ s[1] = Pad \/ s[2] = Pad
    THEN [b |-> << >>, err |-> TRUE]
    ELSE IF s[3] = Pad
    THEN IF Len(s) = 4 /\ s[4] = Pad
         THEN [b |-> << s[1] * 4 + s[2] \div 16 >>, err |-> FALSE]
         ELSE [b |-> << >>, err |-> TRUE]
    ELSE IF s[4] = Pad
    THEN IF Len(s) = 4
         THEN [b |-> << s[1] * 4 + s[2] \div 16,
                        (s[2] % 16) * 16 + s[3] \div 4 >>, err |-> FALSE]
         ELSE [b |-> << >>, err |-> TRUE]
    ELSE LET rest == DecodeString(SubSeq(s, 5, Len(s))) IN
         [b |-> << s[1] * 4 + s[2] \div 16,
                   (s[2] % 16) * 16 + s[3] \div 4,
                   (s[3] % 4) * 64 + s[4] >> \o rest.b,
          err |-> rest.err]

\* Base64Encoded.MarshalJSON: the JSON string of the encoding
Base64MarshalJSON(b) == EncodeToString(b)

\* (for comparison: a decoding that takes a padded group for a full one)
Base64UnmarshalJSON_NoPadding(data) ==
    [b |-> [k \in 1..((Len(data) \div 4) * 3) |-> 0], err |-> FALSE]

\* Base64Encoded.UnmarshalJSON: the string decoded, or the decoder's error
Base64UnmarshalJSON(data) == DecodeString(data)

\* a Go map: nil, or made and holding entries
NilMap == [nil |-> TRUE, m |-> {}]
MakeMap(m) == [nil |-> FALSE, m |-> m]

\* a DeploymentState value in memory: the pointers as sets, the maps as Go
\* maps
StateValue(i, dc, ad, gf, rc) ==
    [Intent |-> i, DeployConfig |-> dc, Addresses |-> ad,
     GenesisFiles |-> gf, RollupConfigs |-> rc]

\* the rollup chain ids of the per-chain maps
RoundTripChainIDs == { 42, 43 }

\* the intents of the states: none, one without overrides, one whose override
\* holds a number as a decoded document holds it
RoundTripIntents ==
    { {},
      { Intent(1, 42, FALSE, FALSE, FALSE, NoOverrides) },
      { Intent(1, 42, TRUE, FALSE, FALSE,
               Overrides({ [id |-> "l2ChainID", val |-> Num(Two53 + 2)] })) } }

\* the configurations: none, or the one of a rollup chain id above 2^53
RoundTripConfigs ==
    { {},
      { BaseDeployConfig(MnemonicKeyGenerator(TestMnemonic), 1,
                         Intent(1, Two53 + 1, FALSE, TRUE, TRUE, NoOverrides)) } }

\* the genesisFiles maps: nil, made and empty (as "genesisFiles": {} decodes),
\* and every blob under the first chain id with or without a second entry
RoundTripGenesisFiles ==
    { NilMap, MakeMap({}), MakeMap({ [id |-> 43, val |-> GzipMagic] }) }
    \cup { MakeMap({ [id |-> 42, val |-> b] }) : b \in Blobs }
    \cup { MakeMap({ [id |-> 42, val |-> b], [id |-> 43, val |-> GzipMagic] }) :
             b \in Blobs }

RoundTripRollupConfigs ==
    { NilMap, MakeMap({}) }
    \cup { MakeMap({ [id |-> c, val |-> [L1ChainID |-> 1, L2ChainID |-> c, l1 |-> 1]] :
                     c \in ids }) :
             ids \in { { 42 }, RoundTripChainIDs } }

StateValues ==
    { StateValue(i, dc, ad, gf, rc) :
        i \in RoundTripIntents, dc \in RoundTripConfigs,
        ad \in { {} } \cup { { a } : a \in AddressSets },
        gf \in RoundTripGenesisFiles, rc \in RoundTripRollupConfigs }

\* json.NewEncoder(file).Encode(state): intent always, the other fields
\* unless empty (omitempty: a nil pointer, a map without entries)
EncodeState(s) ==
    [intent |-> s.Intent,
     deployConfig |-> { MarshalConfig(c) : c \in s.DeployConfig },
     addresses |-> { Str(a) : a \in s.Addresses },
     genesisFiles |->
        IF s.GenesisFiles.m = {} THEN {}
        ELSE { { [id |-> e.id, val |-> Base64MarshalJSON(e.val)] :
                   e \in s.GenesisFiles.m } },
     rollupConfigs |->
        IF s.RollupConfigs.m = {} THEN {} ELSE { s.RollupConfigs.m }]

\* decoder.Decode(&state): an absent key leaves the zero value (nil)
DecodeState(doc) ==
    IF \/ \E c \in doc.deployConfig : DecodeFails(c)
       \/ \E o \in doc.genesisFiles : \E e \in o : Base64UnmarshalJSON(e.val).err
    THEN [state |-> {}, err |-> TRUE]
    ELSE [state |->
            { StateValue(
                { DecodeIntent(j) : j \in doc.intent },
                { UnmarshalConfig(c) : c \in doc.deployConfig },
                { a.n : a \in doc.addresses },
                IF doc.genesisFiles = {} THEN NilMap
                ELSE MakeMap(UNION { { [id |-> e.id,
                                        val |-> Base64UnmarshalJSON(e.val).b] :
                                          e \in o } : o \in doc.genesisFiles }),
                IF doc.rollupConfigs = {} THEN NilMap
                ELSE MakeMap(UNION doc.rollupConfigs)) },
          err |-> FALSE]

InitRoundTrip ==
    /\ PipeInit(Intents)
    /\ \A a \in DOMAIN chain.code : ~chain.code[a]
    /\ keygen = MnemonicKeyGenerator(TestMnemonic)
    /\ KeygenIdle
    /\ BackendIdle
    /\ PollIdle
    /\ TarIdle
    /\ InboxIdle
    /\ mem \in { { s } : s \in StateValues }
    /\ disk = {}
    /\ back = {}

\* WriteDeploymentState(path, state) on a path that can be written
RoundTripWrite ==
    /\ mem # {} /\ disk = {}
    /\ disk' = { EncodeState(s) : s \in mem }
    /\ UNCHANGED << pipeVars, keygen, keygenVars, mem, back, backendVars, pollVars, tarVars, inboxVars >>

\* ReadDeploymentState(path) of what was written
RoundTripRead ==
    /\ disk # {} /\ back = {}
    /\ back' = { DecodeState(d) : d \in disk }
    /\ UNCHANGED << pipeVars, keygen, keygenVars, mem, disk, backendVars, pollVars, tarVars, inboxVars >>

NextRoundTrip ==
    \/ RoundTripWrite
    \/ RoundTripRead

SpecRoundTrip == InitRoundTrip /\ [][NextRoundTrip]_vars

----------------------------------------------------------------------------
(* The backends on their own: what the toolchain is started with *)

\* the deploy configs of the states handed to a backend
BackendConfigs ==
    { BaseDeployConfig(MnemonicKeyGenerator(TestMnemonic), b, i) :
        b \in Blocks, i \in Intents }

\* opts.State: the state Deploy read (deploy.go:128-132), or the one Genesis
\* read, whose DeployConfig it has dereferenced before the call (part_003:87)
BackendStates(op) ==
    { DeploymentState({ i }, dc, ad, {}, {}) :
        i \in Intents,
        dc \in (IF op = "Deploy" THEN { {} } ELSE {})
                  \cup { { c } : c \in BackendConfigs },
        ad \in { {} } \cup { { a } : a \in AddressSets } }

\* the monorepo checkout has no deploy-config.json, or one of some config
InitBackend ==
    /\ PipeInit(Intents)
    /\ \A a \in DOMAIN chain.code : ~chain.code[a]
    /\ keygen = MnemonicKeyGenerator(TestMnemonic)
    /\ KeygenIdle
    /\ RoundTripIdle
    /\ PollIdle
    /\ TarIdle
    /\ InboxIdle
    /\ binv = NoInvocation
    /\ \E repo \in { NoFile } \cup { ConfigFile({ c }) : c \in BackendConfigs } :
         fs = [f \in HostFiles |-> IF f = RepoConfigPath THEN repo ELSE NoFile]
    /\ tool = NoToolchain

\* the step after ensureImage, or the first step of a LocalBackend method
FirstInput(op) == IF op = "Deploy" THEN "stateFile" ELSE "guard"

\* backend.Deploy(ctx, opts) / backend.GenerateAllocs(ctx, opts)
BackendInvoke ==
    /\ binv.pc = "idle"
    /\ \E b \in { "docker", "local" }, op \in { "Deploy", "GenerateAllocs" } :
         \E d \in BackendStates(op) :
            binv' = [backend |-> b, op |-> op, state |-> { d },
                     pc |-> IF b = "docker" THEN "image" ELSE FirstInput(op)]
    /\ UNCHANGED << pipeVars, keygen, keygenVars, roundTripVars, fs, tool, pollVars, tarVars, inboxVars >>

\* DockerBackend: d.ensureImage(ctx) (cli.go:155, 200)
InputEnsureImage ==
    /\ binv.pc = "image"
    /\ binv' \in { [binv EXCEPT !.pc = FirstInput(binv.op)],
                   [binv EXCEPT !.pc = "error"] }
    /\ UNCHANGED << pipeVars, keygen, keygenVars, roundTripVars, fs, tool, pollVars, tarVars, inboxVars >>

\* GenerateAllocs: opts.State.Addresses == nil (cli.go:204, 474)
InputGuard ==
    /\ binv.pc = "guard"
    /\ \E d \in binv.state :
         binv' = [binv EXCEPT !.pc = IF d.addresses = {} THEN "error"
                                     ELSE "addressesFile"]
    /\ UNCHANGED << pipeVars, keygen, keygenVars, roundTripVars, fs, tool, pollVars, tarVars, inboxVars >>

\* Deploy: os.CreateTemp("", "infile-*.json") (cli.go:160, 436); the
\* LocalBackend goes on to build the command
InputStateFile ==
    /\ binv.pc = "stateFile"
    /\ \/ /\ fs' = [fs EXCEPT ![StateTemp] = EmptyFile]
          /\ binv' = [binv EXCEPT !.pc = IF binv.backend = "docker"
                                         THEN "writeState" ELSE "command"]
       \/ /\ binv' = [binv EXCEPT !.pc = "error"]
          /\ UNCHANGED fs
    /\ UNCHANGED << pipeVars, keygen, keygenVars, roundTripVars, tool, pollVars, tarVars, inboxVars >>

\* DockerBackend.Deploy: WriteDeploymentState(stateFile.Name(), opts.State)
\* (cli.go:166)
InputWriteState ==
    /\ binv.pc = "writeState"
    /\ \/ /\ \E d \in binv.state : fs' = [fs EXCEPT ![StateTemp] = StateFile(d)]
          /\ binv' = [binv EXCEPT !.pc = "containerCreate"]
       \/ /\ binv' = [binv EXCEPT !.pc = "error"]
          /\ UNCHANGED fs
    /\ UNCHANGED << pipeVars, keygen, keygenVars, roundTripVars, tool, pollVars, tarVars, inboxVars >>

\* GenerateAllocs: the addresses temp file created and encoded
\* (cli.go:209-217, 479-487)
InputAddressesFile ==
    /\ binv.pc = "addressesFile"
    /\ \/ /\ \E d \in binv.state :
               fs' = [fs EXCEPT ![AddressesTemp] = AddressesFile(d.addresses)]
          /\ binv' = [binv EXCEPT !.pc = "configFile"]
       \/ /\ binv' = [binv EXCEPT !.pc = "error"]
          /\ fs' \in { fs, [fs EXCEPT ![AddressesTemp] = EmptyFile] }
    /\ UNCHANGED << pipeVars, keygen, keygenVars, roundTripVars, tool, pollVars, tarVars, inboxVars >>

\* GenerateAllocs: the deploy config temp file created and encoded
\* (cli.go:219-227, 489-497)
InputConfigFile ==
    /\ binv.pc = "configFile"
    /\ \/ /\ \E d \in binv.state :
               fs' = [fs EXCEPT ![ConfigTemp] = ConfigFile(d.deployConfig)]
          /\ binv' = [binv EXCEPT !.pc = IF binv.backend = "docker"
                                         THEN "containerCreate" ELSE "command"]
       \/ /\ binv' = [binv EXCEPT !.pc = "error"]
          /\ fs' \in { fs, [fs EXCEPT ![ConfigTemp] = EmptyFile] }
    /\ UNCHANGED << pipeVars, keygen, keygenVars, roundTripVars, tool, pollVars, tarVars, inboxVars >>

\* the path variables of container.Config.Env (cli.go:172-176, 228-231)
DockerEnv(op) ==
    IF op = "Deploy"
    THEN { [name |-> "DEPLOY_STATE_PATH", path |-> ContainerStatePath] }
    ELSE { [name |-> "CONTRACT_ADDRESSES_PATH", path |-> ContainerAddressesPath],
           [name |-> "DEPLOY_CONFIG_PATH", path |-> ContainerConfigPath] }

\* container.HostConfig.Mounts (cli.go:178-184, 242-253)
DockerMounts(op) ==
    IF op = "Deploy"
    THEN { [Source |-> StateTemp, Target |-> ContainerStatePath] }
    ELSE { [Source |-> AddressesTemp, Target |-> ContainerAddressesPath],
           [Source |-> ConfigTemp, Target |-> ContainerConfigPath] }

\* the path variables of cmd.Env (cli.go:446-450, 510-514)
LocalEnv(op) ==
    IF op = "Deploy"
    THEN { [name |-> "DEPLOY_STATE_PATH", path |-> StateTemp] }
    ELSE { [name |-> "CONTRACT_ADDRESSES_PATH", path |-> AddressesTemp],
           [name |-> "DEPLOY_CONFIG_PATH", path |-> RepoConfigPath] }

\* d.dkr.ContainerCreate (cli.go:170-188, 229-257)
InputContainerCreate ==
    /\ binv.pc = "containerCreate"
    /\ \/ /\ tool' = [tool EXCEPT !.env = DockerEnv(binv.op),
                                  !.mounts = DockerMounts(binv.op)]
          /\ binv' = [binv EXCEPT !.pc = "start"]
       \/ /\ binv' = [binv EXCEPT !.pc = "error"]
          /\ UNCHANGED tool
    /\ UNCHANGED << pipeVars, keygen, keygenVars, roundTripVars, fs, pollVars, tarVars, inboxVars >>

\* exec.Command and cmd.Env (cli.go:442-450, 499-514)
InputCommand ==
    /\ binv.pc = "command"
    /\ tool' = [tool EXCEPT !.env = LocalEnv(binv.op)]
    /\ binv' = [binv EXCEPT !.pc = "start"]
    /\ UNCHANGED << pipeVars, keygen, keygenVars, roundTripVars, fs, pollVars, tarVars, inboxVars >>

\* the file the toolchain finds at a path: in a container the source of the
\* mount on that path, else what the image has there
ReadAt(path) ==
    IF binv.backend = "docker"
    THEN IF \E m \in tool.mounts : m.Target = path
         THEN fs[(CHOOSE m \in tool.mounts : m.Target = path).Source]
         ELSE ImageFile
    ELSE IF path \in HostFiles THEN fs[path] ELSE NoFile

\* d.runContainer / cmd.Start: the toolchain starts and reads its inputs
ToolchainStart ==
    /\ binv.pc = "start"
    /\ \/ /\ tool' = [tool EXCEPT !.started = TRUE,
                                  !.saw = { [name |-> e.name, file |-> ReadAt(e.path)] :
                                              e \in tool.env }]
          /\ binv' = [binv EXCEPT !.pc = "running"]
       \/ /\ binv' = [binv EXCEPT !.pc = "error"]
          /\ UNCHANGED tool
    /\ UNCHANGED << pipeVars, keygen, keygenVars, roundTripVars, fs, pollVars, tarVars, inboxVars >>

NextBackend ==
    \/ BackendInvoke
    \/ InputEnsureImage
    \/ InputGuard
    \/ InputStateFile
    \/ InputWriteState
    \/ InputAddressesFile
    \/ InputConfigFile
    \/ InputContainerCreate
    \/ InputCommand
    \/ ToolchainStart

SpecBackend == InitBackend /\ [][NextBackend]_vars

----------------------------------------------------------------------------
(* checkCreate2's poll loop on its own: deploy.go:192-211 *)

\* eth_sendRawTransaction has returned a hash: the transaction is pending,
\* the ticker is new, the context may already be cancelled
InitPoll ==
    /\ PipeInit(Intents)
    /\ \A a \in DOMAIN chain.code : ~chain.code[a]
    /\ keygen = MnemonicKeyGenerator(TestMnemonic)
    /\ KeygenIdle
    /\ RoundTripIdle
    /\ BackendIdle
    /\ TarIdle
    /\ InboxIdle
    /\ \E d \in BOOLEAN :
         loop = [NoLoop EXCEPT !.pc = "select", !.tx = "pending", !.done = d]

\* time.NewTicker(time.Second): the ticker puts a tick into tick.C, which
\* holds one tick and drops the ones that find it full
PollTicker ==
    /\ loop.pc \in { "select", "query" } /\ ~loop.tickC
    /\ loop' = [loop EXCEPT !.tickC = TRUE]
    /\ UNCHANGED << pipeVars, keygen, keygenVars, roundTripVars, backendVars, tarVars, inboxVars >>

\* the answers ec.TransactionReceipt(ctx, txHash) can give: a cancelled
\* context fails the query, the node can fail it, and otherwise it tells
\* where the transaction is
PollReceipts ==
    IF loop.done THEN { "ctxerror" }
    ELSE { "rpcerror" } \cup
         (CASE loop.tx = "ok" -> { "status1" }
            [] loop.tx = "fail" -> { "status0" }
            [] OTHER -> { "notfound" })

\* what checkCreate2 returns for the answer that ends the loop
PollResult(r) ==
    IF r = "ctxerror" THEN "cancelled" ELSE OnReceipt(r)

\* case <-tick.C: the loop takes the tick and calls ec.TransactionReceipt
\* (deploy.go:196-197)
PollTick ==
    /\ loop.pc = "select" /\ loop.tickC
    /\ loop' = [loop EXCEPT !.tickC = FALSE, !.pc = "query"]
    /\ UNCHANGED << pipeVars, keygen, keygenVars, roundTripVars, backendVars, tarVars, inboxVars >>

\* the call returns: continue on not-found, return otherwise
\* (deploy.go:198-207)
PollAnswer ==
    /\ loop.pc = "query"
    /\ \E r \in PollReceipts :
         IF PollResult(r) = "retry"
         THEN loop' = [loop EXCEPT !.pc = "select", !.last = r,
                                   !.polls = IF @ < MaxPolls THEN @ + 1 ELSE @]
         ELSE loop' = [loop EXCEPT !.pc = "returned", !.last = r,
                                   !.result = PollResult(r)]
    /\ UNCHANGED << pipeVars, keygen, keygenVars, roundTripVars, backendVars, tarVars, inboxVars >>

\* case <-ctx.Done(): return ctx.Err() (deploy.go:208-209)
PollCtxDone ==
    /\ loop.pc = "select" /\ loop.done
    /\ loop' = [loop EXCEPT !.pc = "returned", !.last = "ctxdone",
                            !.result = "cancelled"]
    /\ UNCHANGED << pipeVars, keygen, keygenVars, roundTripVars, backendVars, tarVars, inboxVars >>

\* the anchor chain mines the transaction, with either status
PollMine ==
    /\ loop.tx = "pending"
    /\ \E t \in { "ok", "fail" } : loop' = [loop EXCEPT !.tx = t]
    /\ UNCHANGED << pipeVars, keygen, keygenVars, roundTripVars, backendVars, tarVars, inboxVars >>

\* the caller cancels the context
PollCancel ==
    /\ ~loop.done
    /\ loop' = [loop EXCEPT !.done = TRUE]
    /\ UNCHANGED << pipeVars, keygen, keygenVars, roundTripVars, backendVars, tarVars, inboxVars >>

NextPoll ==
    \/ PollTicker
    \/ PollTick
    \/ PollAnswer
    \/ PollCtxDone
    \/ PollMine
    \/ PollCancel

\* the ticker keeps ticking, the select statement takes a case that is
\* ready, and a receipt query comes back (answered by the node or ended by
\* the context)
SpecPoll ==
    /\ InitPoll
    /\ [][NextPoll]_vars
    /\ WF_vars(PollTicker)
    /\ WF_vars(PollTick \/ PollCtxDone)
    /\ WF_vars(PollAnswer)
----------------------------------------------------------------------------
(* readFileFromContainer on its own: cli.go:364-389 *)

\* entries an archive holds in the model
MaxEntries == 2

\* containerAddressesPath and containerAllocsPath (cli.go:113-114), as the
\* sequences of their path elements
containerAddressesPath ==
    << "workspace", "optimism", "packages", "contracts-bedrock", "deployments",
       "deployment.json" >>
containerAllocsPath ==
    << "workspace", "optimism", "packages", "contracts-bedrock",
       "state-dump-granite.json" >>

\* filepath.Base(path): the last element of the path
Base(path) == IF Len(path) = 0 THEN "." ELSE path[Len(path)]

\* the entries CopyFromContainer's archive can hold: a name, the bytes, and
\* whether the stream breaks inside the entry's bytes
TarEntries ==
    [name : { "deployment.json", "state-dump-granite.json", "deployments" },
     data : 1..2,
     broken : BOOLEAN]

\* the archives: some entries, and then the end-of-archive marker or a
\* header that cannot be read
Archives == UNION { [1..n -> TarEntries] : n \in 0..MaxEntries }

InitTar ==
    /\ PipeInit(Intents)
    /\ \A a \in DOMAIN chain.code : ~chain.code[a]
    /\ keygen = MnemonicKeyGenerator(TestMnemonic)
    /\ KeygenIdle
    /\ RoundTripIdle
    /\ BackendIdle
    /\ PollIdle
    /\ InboxIdle
    /\ \E p \in { containerAddressesPath, containerAllocsPath }, a \in Archives,
          e \in { "eof", "corrupt" } :
         rdr = [NoReader EXCEPT !.pc = "copy", !.path = p, !.archive = a, !.end = e]

\* (for comparison: a scan that takes the first entry, whatever its name)
HeaderMatches_Any(header, path) == TRUE
\* header.Name == filepath.Base(path) (cli.go:381)
HeaderMatches(header, path) == header.name = Base(path)

\* d.dkr.CopyFromContainer(ctx, id, path) and tar.NewReader(stream)
\* (cli.go:365-371)
TarCopy ==
    /\ rdr.pc = "copy"
    /\ \/ rdr' = [rdr EXCEPT !.pc = "scan", !.pos = 1]
       \/ rdr' = [rdr EXCEPT !.pc = "returned", !.err = "copy"]
    /\ UNCHANGED << pipeVars, keygen, keygenVars, roundTripVars, backendVars, pollVars, inboxVars >>

\* one turn of the loop: tr.Next(), the two error returns, and for the
\* entry of the name io.Copy(b, tr) (cli.go:373-388)
TarNext ==
    /\ rdr.pc = "scan"
    /\ IF rdr.pos > Len(rdr.archive)
       THEN rdr' = [rdr EXCEPT !.pc = "returned",
                               !.err = IF rdr.end = "eof" THEN "notfound" ELSE "header"]
       ELSE LET header == rdr.archive[rdr.pos] IN
            IF HeaderMatches(header, rdr.path)
            THEN IF header.broken
                 THEN rdr' = [rdr EXCEPT !.pc = "returned", !.err = "read"]
                 ELSE rdr' = [rdr EXCEPT !.pc = "returned", !.data = { header.data }]
            ELSE rdr' = [rdr EXCEPT !.pos = @ + 1]
    /\ UNCHANGED << pipeVars, keygen, keygenVars, roundTripVars, backendVars, pollVars, inboxVars >>

NextTar ==
    \/ TarCopy
    \/ TarNext

SpecTar == InitTar /\ [][NextTar]_vars

----------------------------------------------------------------------------
(* batchInboxAddress on its own: part_006:33-39, 224-238 *)

\* rollup chain ids, as the eight bytes of a uint64 with the high byte first:
\* small ids, ids around 2^63, and ids at the top of the range
Uint64s ==
    { << hi, m, m, m, m, m, m, lo >> :
        hi \in { 0, 1, 127, 128, 255 }, m \in { 0, 255 }, lo \in { 0, 1, 2, 254, 255 } }

\* int64(u) < 0: the conversion keeps the bits, so the sign is the top bit
IsNegative(u) == u[1] >= 128

\* -x in 64 bits: every bit inverted, plus one, the carry running up from
\* the last byte
AddOne(u) ==
    LET stop == { i \in DOMAIN u : u[i] # 255 } IN
    [i \in DOMAIN u |->
        IF \E k \in stop : k > i THEN u[i]
        ELSE IF i \in stop THEN u[i] + 1
        ELSE 0]
Negate(u) == AddOne([i \in DOMAIN u |-> 255 - u[i]])

\* a byte sequence without its leading zero bytes
Strip(s) ==
    LET nz == { i \in DOMAIN s : s[i] # 0 } IN
    IF nz = {} THEN << >>
    ELSE LET first == CHOOSE i \in nz : \A j \in nz : i <= j IN
         [k \in 1..(Len(s) - first + 1) |-> s[first + k - 1]]

\* big.NewInt(int64(c.L2ChainID)) (part_006:37-39): a sign and the
\* magnitude of the signed value
L2ChainIDBig(u) ==
    [neg |-> IsNegative(u),
     abs |-> Strip(IF IsNegative(u) THEN Negate(u) ELSE u)]

\* batchInboxAddress with the address spelt out in its twenty bytes:
\* 0x42 in the first one, chainID.Bytes() (the magnitude, high byte first,
\* no leading zeros) copied from the last byte backwards, the loop
\* stopping before it would reach the first byte
batchInboxAddressBytes(chainID) ==
    LET b == chainID.abs
        n == Len(b)
    IN [p \in 1..20 |->
          IF p = 1 THEN 66
          ELSE IF n - (20 - p) >= 1 THEN b[n - (20 - p)] ELSE 0]

InitInbox ==
    /\ PipeInit(Intents)
    /\ \A a \in DOMAIN chain.code : ~chain.code[a]
    /\ keygen = MnemonicKeyGenerator(TestMnemonic)
    /\ KeygenIdle
    /\ RoundTripIdle
    /\ BackendIdle
    /\ PollIdle
    /\ TarIdle
    /\ \E a \in Uint64s, b \in Uint64s :
         inbox = [NoInbox EXCEPT !.pc = "intent", !.ids = << a, b >>]

\* intent.L2ChainIDBig() for the two intents (part_006:129)
InboxConvert ==
    /\ inbox.pc = "intent"
    /\ inbox' = [inbox EXCEPT !.pc = "big",
                              !.big = [i \in 1..2 |-> L2ChainIDBig(inbox.ids[i])]]
    /\ UNCHANGED << pipeVars, keygen, keygenVars, roundTripVars, backendVars, pollVars,
                    tarVars >>

\* BatchInboxAddress: batchInboxAddress(...) for each (part_006:129)
InboxAddress ==
    /\ inbox.pc = "big"
    /\ inbox' = [inbox EXCEPT !.pc = "derived",
                              !.addr = [i \in 1..2 |-> batchInboxAddressBytes(inbox.big[i])]]
    /\ UNCHANGED << pipeVars, keygen, keygenVars, roundTripVars, backendVars, pollVars,
                    tarVars >>

NextInbox ==
    \/ InboxConvert
    \/ InboxAddress

SpecInbox == InitInbox /\ [][NextInbox]_vars

----------------------------------------------------------------------------
(* Properties *)

\* the documents on disk
Docs == UNION { files[p].doc : p \in Paths }

\* the stage function has returned (to DeployCLI's errCh, or to the CLI)
Returned == pc = "done"

\* what the stage function returned
StageResult == IF cmd = "deploy" THEN errCh ELSE { ret }

\* C1: in every state document on disk, addresses is present only with
\* deployConfig, and genesisFiles / rollupConfigs only with addresses and
\* deployConfig.
C1_StageOrder ==
    \A d \in Docs :
        /\ d.addresses # {} => d.deployConfig # {}
        /\ (d.genesisFiles # {} \/ d.rollupConfigs # {})
              => (d.addresses # {} /\ d.deployConfig # {})

\* C2: at every point of a run the output path holds what it held when the
\* run began or the complete document the stage produces.
C2_AtomicWrite ==
    cmd # "idle" =>
        \/ files[outf] = hist.orig
        \/ /\ hist.opened
           /\ \E d \in st : files[outf] = Document(d)

\* C3: when the helper has code at the canonical address, checkCreate2
\* submits no transaction.
C3_BootstrapIdempotent ==
    (cmd = "deploy" /\ hist.codeAtStart) => submitted = 0

\* C4: one checkCreate2 invocation submits the bootstrap transaction at most
\* once however many polls find no receipt, and a step of the poll loop taken
\* with the context cancelled returns a cancellation error and submits
\* nothing.
C4_SubmitOnce ==
    [][ /\ submitted' <= 1
        /\ (pc = "cc2_poll" /\ ctxDone /\ pc' \notin { pc, "dead" })
              => /\ pc' = "done"
                 /\ errCh' = { "cancelled" }
                 /\ submitted' = submitted
                 /\ chain' = chain ]_vars

\* a cancellation during polling, after MaxPolls polls without a receipt
C4_Witness ==
    /\ cmd = "deploy" /\ Returned
    /\ submitted = 1 /\ polls = MaxPolls
    /\ hist.bootErr /\ errCh = { "cancelled" }

\* C5: when the docker backend's wait ends on a cancellation while the
\* container still runs, the container is stopped by the time the invocation
\* returns, and the result is a cancellation error.
C5_DockerCancelStops ==
    (~local /\ Returned /\ hist.cancelRunning)
        => (ctr # "running" /\ StageResult = { "cancelled" } /\ art = {})

\* C6: when awaitCommand's select runs with the context cancelled and the
\* subprocess still running, the subprocess is killed, awaitCommand returns
\* only after cmd.Wait has returned, and LocalBackend.Deploy returns the
\* cancellation error and no artifact.
C6_LocalCancelReaps ==
    (local /\ hist.cancelRunning) =>
        /\ proc \in { "killing", "signaled", "reaped" }
        /\ art = {}
        /\ pc \in { "l_drain", "done", "dead" }
        /\ Returned => (proc = "reaped" /\ cmdErrCh # {} /\ errCh = { "cancelled" })

\* LocalBackend.Deploy returned after a cancellation that found the
\* subprocess running
C6_Witness ==
    /\ cmd = "deploy" /\ local /\ Returned
    /\ hist.cancelRunning
    /\ proc = "reaped" /\ errCh = { "cancelled" }

\* C7: when Deploy returns a cancellation error after DeployCLI cancelled the
\* context, DeployCLI reports a cancellation error to its caller.
C7_CancelReported ==
    (cmd = "deploy" /\ hist.sig # "none" /\ errCh = { "cancelled" }
        /\ ret \notin { "none", "crash" })
        => ret = "cancelled"

\* C8: an interrupt that arrives while the Genesis stage waits for its
\* container stops the container and makes Genesis return a cancellation
\* error; and every step of Deploy's bootstrap check, the initial code read
\* included, taken with the context cancelled returns a cancellation error.
C8_SignalReachesAll ==
    [][ /\ (cmd' = "genesis" /\ hist'.sig = "d_await" /\ ret' \notin { "none", "crash" })
              => (ret' = "cancelled" /\ ctr' # "running")
        /\ (cmd = "deploy" /\ ctxDone /\ pc \in { "cc2_code", "cc2_send", "cc2_poll" }
              /\ pc' \notin { pc, "dead" })
              => (pc' = "done" /\ errCh' = { "cancelled" }) ]_vars

\* C9: in Deploy no backend is created or invoked, no container or
\* subprocess started and no output opened before checkCreate2 has returned,
\* nor ever once it has returned an error; the output path is then as it was.
C9_BootstrapFirst ==
    (cmd = "deploy"
        /\ (pc \in { "read", "cc2_code", "cc2_send", "cc2_poll" } \/ hist.bootErr))
        => /\ hist.backend = "none"
           /\ ctr = "none" /\ proc = "none"
           /\ ~hist.opened
           /\ files[outf] = hist.orig
           /\ art = {}

\* Deploy returned the error of a failed bootstrap check to the CLI
C9_Witness ==
    /\ cmd = "deploy" /\ hist.bootErr
    /\ Returned /\ ret = "error"
    /\ submitted = 1

\* C10: Genesis on a document without addresses or without deployConfig
\* returns an error, does not crash, does not invoke the backend and writes
\* nothing.
C10_GenesisRefuses ==
    (cmd = "genesis" /\ ret \notin { "none", "crash", "killed" }
        /\ \E d \in hist.read : d.addresses = {} \/ d.deployConfig = {})
        => (ret = "error" /\ hist.backend # "invoked" /\ ~hist.opened)

\* C11: after a successful Genesis run the output document has genesisFiles
\* and rollupConfigs entries, and every entry is keyed by the rollup chain id
\* of the document's intent.
C11_GenesisKeyedByIntent ==
    (cmd = "genesis" /\ ret = "ok") =>
        \A d \in files[outf].doc :
            /\ d.genesisFiles # {} /\ d.rollupConfigs # {}
            /\ \A e \in d.genesisFiles \cup d.rollupConfigs, i \in d.intent :
                   e.id = i.l2ChainID

\* C12: a Configure run on an intent that sets both useFaultProofs and
\* useAltDA never asks the anchor chain for its head block, never opens the
\* output path, and does not succeed.
C12_BothFlagsRejected ==
    (cmd = "configure"
        /\ \E d \in hist.read : \E i \in d.intent :
               i.useFaultProofs /\ i.useAltDA)
        => (~hist.fetched /\ ~hist.opened /\ ret # "ok")

\* C13: NewDeployConfig returns a configuration exactly when it returns no
\* error, and a returned configuration has passed validation; when the head
\* fetch, a key lookup, the overrides or the validation fails, Configure
\* returns an error and the output path is never opened and holds what it
\* held.
C13_ConfigOrError ==
    cmd = "configure" =>
        /\ \A r \in hist.derived :
              /\ r.err = "nil" <=> r.cfg # {}
              /\ \A c \in r.cfg : DeployConfigCheck(c)
        /\ (Returned /\ hist.fetched
              /\ (hist.head = {} \/ \E r \in hist.derived : r.err # "nil"))
              => (ret = "error" /\ ~hist.opened /\ files[outf] = hist.orig)
        /\ (hist.opened \/ pc = "w_open")
              => \E r \in hist.derived : r.err = "nil" /\ \A d \in st : d.deployConfig = r.cfg

\* Configure returned after a key lookup failed in NewDeployConfig
C13_Witness ==
    /\ cmd = "configure" /\ Returned /\ ret = "error"
    /\ \E r \in hist.derived : r.err = "derive" /\ r.cfg = {}
    /\ ~hist.opened

\* C14: when NewDeployConfig applied an override map whose keys all name
\* fields of the configuration, the configuration it returns has the
\* override's value in every overridden field and the value computed from the
\* intent in every other field (all of them, for an empty map).
C14_OverridesExact ==
    cmd = "configure" =>
        \A r \in hist.derived, d \in hist.read :
            \A i \in d.intent : \A m \in i.overrides :
                ({ o.id : o \in m } \subseteq FieldTags /\ r.err = "nil")
                    => \A c \in r.cfg, b \in r.base : \A f \in FieldSpecs :
                          IF \E o \in m : o.id = f.tag
                          THEN \E o \in m : o.id = f.tag /\ ToJSON(f, c[f.name]) = o.val
                          ELSE c[f.name] = b[f.name]

\* C15: when the override map of the intent has a key that names no field of
\* the configuration, NewDeployConfig returns an error and no configuration
\* (the key is never dropped silently), and Configure neither opens the
\* output path nor succeeds.
C15_UnknownKeyRejected ==
    cmd = "configure" =>
        \A r \in hist.derived, d \in hist.read :
            \A i \in d.intent : \A m \in i.overrides :
                { o.id : o \in m } \ FieldTags # {}
                    => (r.err # "nil" /\ r.cfg = {}
                          /\ ~hist.opened /\ ret # "ok")

C17_RoleAddresses ==
    cmd = "configure" =>
        \A r \in hist.derived, d \in hist.read : \A i \in d.intent :
            (IntentCheck(i) = "nil" /\ i.overrides = NoOverrides /\ r.err = "nil")
                => \A c \in r.cfg :
                      /\ c.L1ChainID = i.l1ChainID
                      /\ c.L2ChainID = i.l2ChainID
                      /\ \A f \in AddressFields : c[f] # 0
                      /\ \A f, g \in AddressFields : f # g => c[f] # c[g]

\* C18: with the same seed and the same head block, the configuration
\* NewDeployConfig returned for the intent of this run and the one it returns
\* for an intent of the same anchor chain id and another rollup chain id
\* (both without overrides) differ in every role-resolved address field.
C18_ChainNamespaced ==
    cmd = "configure" =>
        \A r \in hist.derived, d \in hist.read, h \in hist.head :
            \A i \in d.intent, j \in DeriveIntents :
                (/\ r.err = "nil"
                 /\ i.overrides = NoOverrides /\ j.overrides = NoOverrides
                 /\ j.l1ChainID = i.l1ChainID /\ j.l2ChainID # i.l2ChainID
                 /\ NewDeployConfig(keygen, h, j).err = "nil")
                    => \A c \in r.cfg, c2 \in NewDeployConfig(keygen, h, j).cfg :
                          \A f \in AddressFields : c[f] # c2[f]

C21_DeployStateFile ==
    (tool.started /\ binv.op = "Deploy")
        => \E e \in tool.saw, d \in binv.state :
              e.name = "DEPLOY_STATE_PATH" /\ e.file = StateFile(d)

\* C22: when the toolchain of a GenerateAllocs invocation starts, under
\* either backend, the file DEPLOY_CONFIG_PATH points to holds the state's
\* deployConfig and the file CONTRACT_ADDRESSES_PATH points to holds the
\* state's addresses.
C22_AllocsInputFiles ==
    (tool.started /\ binv.op = "GenerateAllocs")
        => \E d \in binv.state :
              /\ \E e \in tool.saw : /\ e.name = "DEPLOY_CONFIG_PATH"
                                     /\ e.file = ConfigFile(d.deployConfig)
              /\ \E e \in tool.saw : /\ e.name = "CONTRACT_ADDRESSES_PATH"
                                     /\ e.file = AddressesFile(d.addresses)

\* C23: when a stage run that read a document with addresses has returned
\* success, the document at its output path has the same addresses.
C23_AddressesImmutable ==
    (Returned /\ StageResult = { "ok" }) =>
        \A d \in hist.read : d.addresses # {} =>
            \A w \in files[outf].doc : w.addresses = d.addresses

\* C24: when a run of Configure, Deploy or Genesis has returned success, the
\* intent of the document at its output path is the intent of the document
\* at its input path when the run began.
C24_IntentImmutable ==
    (Returned /\ StageResult = { "ok" }) =>
        LET input == IF inf = outf THEN hist.orig ELSE files[inf] IN
        \A d \in input.doc : \A w \in files[outf].doc : w.intent = d.intent

\* C25: checkCreate2 passes control on to the backend only from the code
\* read that found code at the address it checks, or from a poll taken when
\* the submitted transaction has a receipt with success status; a poll taken
\* when the receipt has status 0 ends the stage with an error; and the loop
\* goes round again only when there is no receipt yet.
C25_ReceiptDecides ==
    [][ (cmd = "deploy" /\ pc \in { "cc2_code", "cc2_send", "cc2_poll" })
          => /\ (pc' = "backend")
                   => \/ pc = "cc2_code" /\ chain.code[Create2Address]
                      \/ pc = "cc2_poll" /\ chain.tx = "ok" /\ submitted = 1
             /\ (pc = "cc2_poll" /\ chain.tx = "fail" /\ pc' \notin { pc, "dead" })
                   => /\ pc' = "done"
                      /\ errCh' \in { { "error" }, { "cancelled" } }
             /\ (pc = "cc2_poll" /\ polls' # polls)
                   => /\ chain.tx \notin { "ok", "fail" }
                      /\ pc' = "cc2_poll" ]_vars

\* the backend is reached through a success receipt after a poll that found
\* none
C25_Witness ==
    /\ cmd = "deploy" /\ pc = "backend"
    /\ submitted = 1 /\ polls >= 1 /\ chain.tx = "ok"

\* C26: after the submission a receipt query that comes back sends the loop
\* round again only if the transaction is not mined and the context is not
\* cancelled, and in that case it does so unless the query failed; the loop
\* returns only from a query that found a receipt or failed, or on the
\* cancelled context; and, the ticker and the select being scheduled fairly,
\* once the transaction is mined or the context is cancelled checkCreate2
\* returns.
C26_PollUntilSettled ==
    /\ [][ /\ (loop.pc = "query" /\ loop'.pc = "select")
                 => (loop.tx = "pending" /\ ~loop.done)
           /\ (loop.pc = "query" /\ loop'.pc = "returned")
                 => (loop.tx # "pending" \/ loop.done \/ loop'.last = "rpcerror")
           /\ (loop.pc = "select" /\ loop'.pc = "returned") => loop.done ]_vars
    /\ ((loop.pc # "idle" /\ (loop.tx # "pending" \/ loop.done))
            ~> (loop.pc = "returned"))

\* the loop polled without finding a receipt, the transaction was mined, and
\* checkCreate2 returned on its receipt
C26_Witness ==
    /\ loop.pc = "returned" /\ loop.polls >= 1
    /\ loop.last \in { "status0", "status1" } /\ ~loop.done

\* C27: the step in which the code read, the submission, a receipt query,
\* ensureImage, ContainerCreate or ContainerStart returns an error ends the
\* stage with an error, and a call that has failed is not made again in
\* that run.
C27_NoImplicitRetries ==
    [][ /\ (hist'.failed # hist.failed /\ hist'.failed # {})
              => /\ pc' = "done"
                 /\ (IF cmd = "deploy" THEN errCh' ELSE { ret' })
                        \in { { "error" }, { "cancelled" } }
        /\ \A c \in hist.failed :
              hist'.failed = {} \/ hist'.tries[c] = hist.tries[c] ]_vars

\* a receipt query failed on a live context after a poll that found no
\* receipt
C27_Witness ==
    /\ Returned /\ ~ctxDone
    /\ hist.failed = { "TransactionReceipt" } /\ polls >= 1

\* C28: when a key lookup has failed in NewDeployConfig, the key generator
\* has been asked for the key of every addrFor call, the failed one and the
\* ones after it included, and NewDeployConfig returns an error and no
\* configuration.
C28_AllRolesConsulted ==
    \A r \in hist.derived :
        r.err = "derive"
            => /\ r.cfg = {}
               /\ Len(r.calls) = Len(AddrForCalls)
               /\ \A i \in DOMAIN AddrForCalls :
                     r.calls[i].role = AddrForCalls[i].role

\* C29: a Configure run that has returned on an intent whose l1ChainID or
\* l2ChainID is zero has returned an error, has never opened the output
\* path, and has left it as it was.
C29_ZeroChainIdRejected ==
    (cmd = "configure" /\ Returned
        /\ \E d \in hist.read : \E i \in d.intent :
               i.l1ChainID = 0 \/ i.l2ChainID = 0)
        => (ret = "error" /\ ~hist.opened /\ files[outf] = hist.orig)

\* C30: for an intent without overrides, the configuration NewDeployConfig
\* returns has UseFaultProofs set and a non-zero game depth exactly when the
\* intent sets useFaultProofs, UseAltDA set and a non-zero challenge window
\* exactly when the intent sets useAltDA, and FundDevAccounts as the intent's
\* fundDevAccounts.
C30_FeatureBlocks ==
    \A d \in hist.read : \A i \in d.intent : \A r \in hist.derived : \A c \in r.cfg :
        i.overrides = NoOverrides
            => /\ (c.UseFaultProofs /\ c.FaultGameMaxDepth # 0) <=> i.useFaultProofs
               /\ (c.UseAltDA /\ c.DAChallengeWindow # 0) <=> i.useAltDA
               /\ c.FundDevAccounts = i.fundDevAccounts

\* C31: the deployConfig Configure writes holds the hash of the head block
\* it fetched; in every document on disk the genesis block and the rollup
\* configuration of a chain are built on the block of the document's
\* starting-block hash; a successful Genesis got exactly that block from the
\* anchor chain; and a Genesis that asked for it and got none returns an
\* error, never opens the output path and leaves it as it was.
C31_AnchorPinned ==
    /\ (cmd = "configure" /\ hist.opened)
          => \A d \in st : \A c \in d.deployConfig :
                hist.head = { c.L1StartingBlockHash }
    /\ \A p \in Paths : \A d \in files[p].doc :
          \A e \in d.genesisFiles \cup d.rollupConfigs :
             \E c \in d.deployConfig : e.val.l1 = c.L1StartingBlockHash
    /\ (cmd = "genesis" /\ Returned /\ ret = "ok")
          => \A d \in hist.read : \A c \in d.deployConfig :
                hist.start = { c.L1StartingBlockHash }
    /\ (cmd = "genesis" /\ hist.asked /\ hist.start = {})
          => (ret = "error" /\ ~hist.opened /\ files[outf] = hist.orig)

\* Genesis has written entries built on the pinned block over the document
\* Configure and Deploy left
C31_Witness ==
    /\ cmd = "genesis" /\ Returned /\ ret = "ok"
    /\ hist.start # {}
    /\ \E d \in files[outf].doc : d.genesisFiles # {} /\ d.rollupConfigs # {}

C33_OneStreamingTask ==
    /\ hist.tasks["streamLogs"] = (IF ctr \in { "none", "created" } /\ proc = "none"
                                   THEN 0 ELSE 1)
    /\ hist.tasks["cmd.Wait"] = 0
    /\ pc \in { "d_await", "l_await", "l_drain" } => hist.tasks["streamLogs"] = 1

\* C33 (amended): a backend invocation has started at most one goroutine,
\* and has started it exactly when the container or the subprocess has
\* started; the docker backend's goroutine streams the container's logs, the
\* local backend's waits for the subprocess; and the main path is in its
\* wait only with that goroutine started.
C33_OneBackgroundTask ==
    /\ hist.tasks["streamLogs"] = (IF ctr \in { "none", "created" } THEN 0 ELSE 1)
    /\ hist.tasks["cmd.Wait"] = (IF proc = "none" THEN 0 ELSE 1)
    /\ hist.tasks["streamLogs"] + hist.tasks["cmd.Wait"] <= 1
    /\ pc = "d_await" => hist.tasks["streamLogs"] = 1
    /\ pc \in { "l_await", "l_drain" } => hist.tasks["cmd.Wait"] = 1

\* the local backend blocks in awaitCommand with its one goroutine started
C33_Witness ==
    /\ Running /\ pc = "l_await" /\ proc = "running"
    /\ hist.tasks["cmd.Wait"] = 1 /\ hist.tasks["streamLogs"] = 0

\* C34: readFileFromContainer returns the bytes of the first entry of the
\* archive whose name is the base name of the requested path, all of them;
\* it returns an error when the archive ends without such an entry, when a
\* header cannot be read before one is found, when the copy of the archive
\* or the read of the entry's bytes fails; and it never returns both, nor
\* the bytes of an entry of another name.
C34_NamedEntryOnly ==
    rdr.pc = "returned" =>
        LET named == { k \in DOMAIN rdr.archive : rdr.archive[k].name = Base(rdr.path) } IN
        /\ (rdr.err = "none") # (rdr.data = {})
        /\ rdr.err = "none" =>
             \E k \in named :
                /\ \A j \in named : k <= j
                /\ rdr.data = { rdr.archive[k].data }
                /\ ~rdr.archive[k].broken
        /\ rdr.err = "notfound" => (named = {} /\ rdr.end = "eof")
        /\ rdr.err = "header" => (named = {} /\ rdr.end = "corrupt")
        /\ (named = {} /\ rdr.err # "copy") => rdr.err \in { "notfound", "header" }
        /\ rdr.err = "read" => \E k \in named : rdr.archive[k].broken /\ \A j \in named : k <= j

\* the scan has passed an entry of another name and returned the named one
C34_Witness ==
    /\ rdr.pc = "returned" /\ rdr.err = "none" /\ rdr.pos = 2
    /\ rdr.archive[1].name # Base(rdr.path)
    /\ rdr.archive[1].data # rdr.archive[2].data
    /\ rdr.data = { rdr.archive[2].data }

\* C35: the step by which a Configure run returns success leaves at the
\* output path a document that holds the intent the run read from its
\* input, the deployConfig the run derived, and nothing else: no addresses,
\* no genesisFiles, no rollupConfigs, whatever the input held.
C35_ConfigureResets ==
    [][ (cmd = "configure" /\ pc # "done" /\ pc' = "done" /\ ret' = "ok") =>
          /\ files'[outf].kind = "doc"
          /\ \A w \in files'[outf].doc :
                /\ \E d \in hist.read : w.intent = d.intent /\ w.intent # {}
                /\ \E r \in hist.derived : r.err = "nil" /\ w.deployConfig = r.cfg
                /\ w.deployConfig # {}
                /\ w.addresses = {}
                /\ w.genesisFiles = {}
                /\ w.rollupConfigs = {} ]_vars

\* Configure has run again over the document a Genesis run completed
C35_Witness ==
    /\ cmd = "configure" /\ Returned /\ ret = "ok" /\ inf = outf
    /\ \E d \in hist.read :
          d.addresses # {} /\ d.genesisFiles # {} /\ d.rollupConfigs # {}
    /\ \E w \in files[outf].doc : w.addresses = {} /\ w.genesisFiles = {}

\* C36: DeployCLI returns only when the Deploy goroutine has returned and
\* its result is in errCh; a return taken before any cancel() yields that
\* result, a return taken after cancel() follows an interrupt; and the
\* goroutine's send finds the one-slot errCh empty, so it never waits.
C36_WaitsForDeploy ==
    [][ /\ (cmd = "deploy" /\ ret = "none" /\ ret' \notin { "none", "crash" })
              => /\ pc = "done" /\ errCh # {} /\ errCh' = errCh
                 /\ \/ ~ctxDone /\ ret' \in errCh
                    \/ ctxDone /\ hist.sig # "none"
        /\ (cmd = "deploy" /\ ret = "none" /\ errCh' # errCh)
              => (errCh = {} /\ Cardinality(errCh') = 1 /\ pc # "done" /\ pc' = "done") ]_vars

\* DeployCLI has returned after an interrupt, with Deploy's cancellation
\* error delivered before it did
C36_Witness ==
    /\ cmd = "deploy" /\ ret = "ok" /\ ctxDone /\ hist.sig # "none"
    /\ pc = "done" /\ errCh = { "cancelled" }

\* C37: when the streaming task fails to open the container's log stream,
\* the process goes on: the step ends neither the run nor the main path,
\* which is where it was.
C37_LogFailureHarmless ==
    [][ (hist.logs = "opening" /\ hist'.logs = "failed") => (ret' = ret /\ pc' = pc) ]_vars

\* the chain ids a map of the state document has entries for
Keys(m) == { e.id : e \in m }

\* C38: every document on disk, all of which come from documents without
\* genesisFiles and rollupConfigs through runs of the stages, has entries
\* for the same chain ids in genesisFiles and in rollupConfigs.
C38_SameChainIds ==
    \A d \in Docs : Keys(d.genesisFiles) = Keys(d.rollupConfigs)

\* a Genesis run over a document that a Genesis run had completed has
\* written its entries again
C38_Witness ==
    /\ cmd = "genesis" /\ Returned /\ ret = "ok"
    /\ \E d \in hist.read : d.genesisFiles # {} /\ d.rollupConfigs # {}
    /\ \E d \in files[outf].doc :
          Keys(d.genesisFiles) # {} /\ Keys(d.genesisFiles) = Keys(d.rollupConfigs)

\* C39: the batch inbox address derived for a rollup chain id has 0x42 in
\* its first byte, the eight bytes of the chain id (high byte first) in its
\* last eight and zeros between, and two different chain ids of the uint64
\* range never get the same address.
C39_InboxInjective ==
    inbox.pc = "derived" =>
        /\ \A i \in 1..2 :
              /\ inbox.addr[i][1] = 66
              /\ \A p \in 2..12 : inbox.addr[i][p] = 0
              /\ \A p \in 13..20 : inbox.addr[i][p] = inbox.ids[i][p - 12]
        /\ inbox.ids[1] # inbox.ids[2] => inbox.addr[1] # inbox.addr[2]

\* the same, for chain ids below 2^63 only
C39_InboxBelowSignBit ==
    inbox.pc = "derived" =>
        /\ \A i \in 1..2 : ~IsNegative(inbox.ids[i]) =>
              /\ inbox.addr[i][1] = 66
              /\ \A p \in 2..12 : inbox.addr[i][p] = 0
              /\ \A p \in 13..20 : inbox.addr[i][p] = inbox.ids[i][p - 12]
        /\ (inbox.ids[1] # inbox.ids[2] /\ \A i \in 1..2 : ~IsNegative(inbox.ids[i]))
              => inbox.addr[1] # inbox.addr[2]

\* chain ids 1 and 2^64 - 1 have got the same address
C39_Collision ==
    /\ inbox.pc = "derived"
    /\ inbox.ids = << << 0, 0, 0, 0, 0, 0, 0, 1 >>,
                      << 255, 255, 255, 255, 255, 255, 255, 255 >> >>
    /\ inbox.addr[1] = inbox.addr[2]

====
